---- MODULE Spec2Model ----
(***************************************************************************)
(* The TO2 (Transfer Ownership 2) client of go-fdo as a state machine.     *)
(*                                                                         *)
(* The driver is one sequential process.  Every function that talks to the *)
(* owner service blocks in Transport.Send, so each function is two         *)
(* actions: the part up to the call of Transport.Send (...Send) and the    *)
(* part that runs once Transport.Send has returned (...Recv).  What the    *)
(* owner service answers is an input: the Recv actions draw it from the    *)
(* bounded sets below.                                                     *)
(*                                                                         *)
(* Cryptography is symbolic: a signature is the name of the key that made  *)
(* it, an HMAC is the pair (secret, value), a hash is the hashed value.    *)
(***************************************************************************)
EXTENDS Integers, Sequences, FiniteSets, TLC

(***************************************************************************)
(* Protocol constants                                                      *)
(***************************************************************************)
to2HelloDeviceMsgType == 60
to2ProveOVHdrMsgType == 61
to2GetOVNextEntryMsgType == 62
to2OVNextEntryMsgType == 63
to2ProveDeviceMsgType == 64
to2SetupDeviceMsgType == 65
to2DeviceServiceInfoReadyMsgType == 66
to2OwnerServiceInfoReadyMsgType == 67
to2DeviceServiceInfoMsgType == 68
to2OwnerServiceInfoMsgType == 69
to2DoneMsgType == 70
to2Done2MsgType == 71
ErrorMsgType == 255
DefaultMTU == 1300

(***************************************************************************)
(* Bounds of the model                                                     *)
(***************************************************************************)
\* largest NumOVEntries the owner service reports
MaxEntries == 2
\* largest number of KVs in one OwnerServiceInfo message
MaxKV == 1
\* largest number of chunks a device-send pipe delivers before it ends
MaxChunks == 1
\* largest number of DeviceServiceInfo requests of one run
MaxDeviceServiceInfo == 2

(***************************************************************************)
(* Value domains                                                           *)
(***************************************************************************)
Keys == {"k1", "k2"}
\* an encoded PublicKey; Public() fails on "malformed"
PubKeys == Keys \cup {"malformed"}
Nonces == {"n1", "n2"}
GUIDs == {"g1", "g2"}
Secrets == {"devSecret", "otherSecret"}
ErrorPayloads == {"e1", "e2"}
\* message types the transport may hand back
RespTypes == {to2ProveOVHdrMsgType, to2OVNextEntryMsgType, to2SetupDeviceMsgType,
              to2OwnerServiceInfoReadyMsgType, to2OwnerServiceInfoMsgType,
              to2Done2MsgType, ErrorMsgType}
\* values of OwnerServiceInfoReady.MaxDeviceServiceInfoSize (-1: absent)
MtuChoices == {-1, 1}
\* sizes of the chunks of device service info
ChunkSizes == {1, 2}

VoucherHeaders == [GUID : GUIDs, ManufacturerKey : Keys]
\* the headers a ProveOVHdr carries
OVHeaders == [GUID : {"g1"}, ManufacturerKey : Keys]

\* Hash of a value
Hash(v) == <<"hash", v>>
\* HMAC of a value under a secret
HmacOf(secret, v) == [secret |-> secret, over |-> v]
Hmacs == {HmacOf(s, h) : s \in Secrets, h \in OVHeaders}

\* PublicKey.Public(): the parsed key, or "error"
Public(k) == IF k \in Keys THEN k ELSE "error"
\* cose.Sign1.Verify(key): the signer of the structure is the key
VerifySig(signer, key) == signer = key

\* The device: credential, HMAC secret
Cred == [GUID |-> "g1", PublicKeyHash |-> Hash("k1")]
DeviceSecret == "devSecret"

(***************************************************************************)
(* Errors and responses                                                    *)
(***************************************************************************)
Err(kind, fn, payload) == [kind |-> kind, in |-> fn, payload |-> payload]
NoErr == Err("none", "none", "none")

\* bodies every response may carry
GarbageBody == [kind |-> "garbage"]
ErrorBodies == {[kind |-> "ErrorMessage", payload |-> p] : p \in ErrorPayloads}

\* what Transport.Send returns: an error, or a message type and a body
SendError == [sendErr |-> TRUE, typ |-> 0, body |-> GarbageBody]
Responses(bodies) ==
    {SendError} \cup
    [sendErr : {FALSE}, typ : RespTypes, body : bodies \cup ErrorBodies \cup {GarbageBody}]

\* cbor Decode of a response body into a struct of kind k
Decodes(r, k) == r.body.kind = k

VARIABLES
    pc,          \* the driver's position
    sent,        \* requests handed to Transport.Send, in order
    inflight,    \* calls of Transport.Send that have not returned
    lastResp,    \* what the last call of Transport.Send returned
    err,         \* the error the run ended with, NoErr if none
    nonce,       \* local nonce of the running function (helloNonce, setupDeviceNonce)
    info,        \* the to2Context of verifyOwner
    entries,     \* the voucher entries verifyOwner has fetched
    ovTail,      \* the key of the last entry of the voucher verifyOwner checked
    ovPasses,    \* the checks that hold of the voucher verifyOwner checked
    checks,      \* the voucher checks verifyOwner has performed, in order
    replacementOVH, \* the header proveDevice returned
    mtu,         \* the size readyServiceInfo returned
    devOut,      \* what the device-send pipe r still delivers
    wClosed,     \* the owner-receive pipe w has been closed
    msg          \* the sendServiceInfo of the current exchange

\* The service-info loop with its pipes and dispatcher tasks (handleFSIMs)
VARIABLES
    iter,        \* iterations of the loop of exchangeServiceInfo started so far
    maxRead,     \* the bytes left in the DeviceServiceInfo message being filled
    pending,     \* the KVs of the owner's response not yet written to pipe w
    out,         \* out[k]: how device-send pipe k stands: "open", "eof", "error"
    task,        \* task[k]: the writer of device-send pipe k (0: the caller's
                 \* initInfo, k >= 1: the handleFSIMs of iteration k)
    ctxDone,     \* the caller's context has been cancelled
    svcLog,      \* the DeviceServiceInfo messages sent, and how
    produced,    \* produced[k]: the chunks written to device-send pipe k
    recvd,       \* the KVs of the OwnerServiceInfo responses accepted, in order
    delivered    \* the KVs handleFSIMs pulled, in order, and what it did

svcVars == <<iter, maxRead, pending, out, task, ctxDone, svcLog, produced, recvd, delivered>>

\* Two key-exchange sessions (kex/rsadh.go): the owner's, created without a
\* peer parameter, and the device's, created with the owner's parameter
VARIABLES
    owner,       \* the RSADHSession created without xA
    device,      \* the RSADHSession created with xA, Nil before it is created
    xAOut,       \* what the owner's last call of Parameter returned
    xBOut,       \* what the device's last call of Parameter returned
    kexLog,      \* what the sessions wrote to the log, in order
    kexPanic     \* a call on a session has panicked

kexVars == <<owner, device, xAOut, xBOut, kexLog, kexPanic>>

\* A PluginDeviceModule (fsim) and the calls made on it
VARIABLES
    once,        \* m.once has run its function
    proto,       \* m.proto: "nil" or "set"
    merr,        \* m.err: "nil" or the error of Start
    starts,      \* the calls of m.Start so far
    toPlugin,    \* what has been sent to the plugin, in order
    calls        \* the calls on the module and what they returned, in order

plugVars == <<once, proto, merr, starts, toPlugin, calls>>

vars == <<pc, sent, inflight, lastResp, err, nonce, info, entries, ovTail, ovPasses, checks,
          replacementOVH, mtu, devOut, wClosed, msg, svcVars, kexVars, plugVars>>

\* a nil pointer or slice, and a value that is there
Nil == <<>>
Some(v) == <<v>>
Val(o) == o[1]

\* no key-exchange session in use
KexIdle ==
    /\ owner = Nil
    /\ device = Nil
    /\ xAOut = Nil
    /\ xBOut = Nil
    /\ kexLog = <<>>
    /\ kexPanic = FALSE

\* the zero value of PluginDeviceModule
PlugIdle ==
    /\ once = FALSE
    /\ proto = "nil"
    /\ merr = "nil"
    /\ starts = 0
    /\ toPlugin = <<>>
    /\ calls = <<>>

NoInfo == [set |-> FALSE]
NoHeader == [set |-> FALSE]
NoResp == [typ |-> 0, kind |-> "none", nonce |-> "none", signer |-> "none",
           payload |-> "none", num |-> 0, more |-> FALSE, done |-> FALSE,
           entry |-> "none"]
\* what lastResp holds when Transport.Send returned an error
SendErrResp == [NoResp EXCEPT !.kind = "send_error"]
NoPipe == [chunks |-> <<>>, end |-> "eof"]
NoMsg == [IsMoreServiceInfo |-> FALSE, ServiceInfo |-> <<>>]

\* a request as recorded in sent
\* the EAT payload proveDevice signs: KeyExchangeB is left nil
eatPayload == [KeyExchangeB |-> Nil]

Req(typ, num, n) ==
    [typ |-> typ, num |-> num, nonce |-> n,
     KeyExchangeB |-> IF typ = to2ProveDeviceMsgType THEN eatPayload.KeyExchangeB ELSE Nil]

\* the fields of a response the properties look at
Summary(r) ==
    LET b == r.body
        k == b.kind
    IN  IF r.sendErr THEN SendErrResp ELSE
        [typ |-> r.typ, kind |-> k,
         nonce |-> CASE k = "ProveOVHdr" -> b.NonceTO2ProveOV
                     [] k = "SetupDevice" -> b.NonceTO2SetupDv
                     [] k = "Done2" -> b.NonceTO2SetupDv
                     [] OTHER -> "none",
         signer |-> IF k \in {"ProveOVHdr", "SetupDevice"} THEN b.signer ELSE "none",
         payload |-> IF k = "ErrorMessage" THEN b.payload ELSE "none",
         num |-> CASE k = "OVNextEntry" -> b.OVEntryNum
                   [] k = "ProveOVHdr" -> b.NumOVEntries
                   [] k = "OwnerServiceInfo" -> Len(b.ServiceInfo)
                   [] OTHER -> 0,
         more |-> IF k = "OwnerServiceInfo" THEN b.IsMoreServiceInfo ELSE FALSE,
         done |-> IF k = "OwnerServiceInfo" THEN b.IsDone ELSE FALSE,
         entry |-> IF k = "OVNextEntry" /\ r.typ = to2OVNextEntryMsgType
                   THEN b.OVEntry ELSE "none"]

Init ==
    /\ pc = "verifyOwner"
    /\ sent = <<>>
    /\ inflight = 0
    /\ lastResp = NoResp
    /\ err = NoErr
    /\ nonce = "none"
    /\ info = NoInfo
    /\ entries = <<>>
    /\ ovTail = "none"
    /\ ovPasses = {}
    /\ checks = <<>>
    /\ replacementOVH = NoHeader
    /\ mtu = 0
    /\ devOut = NoPipe
    /\ wClosed = FALSE
    /\ msg = NoMsg
    /\ iter = 0
    /\ maxRead = 0
    /\ pending = <<>>
    /\ out = <<>>
    /\ task = <<>>
    /\ ctxDone = FALSE
    /\ svcLog = <<>>
    /\ produced = <<>>
    /\ recvd = <<>>
    /\ delivered = <<>>
    /\ KexIdle
    /\ PlugIdle

(***************************************************************************)
(* Ownership voucher                                                       *)
(***************************************************************************)
\* a signed voucher entry: who signed it, the next owner key it names, and
\* whether its previous-entry hash and header-HMAC hash are the right ones
VoucherEntries == [Signer : Keys, PublicKey : PubKeys, HashesMatch : BOOLEAN]

\* Voucher.VerifyHeader: the HMAC is the device's HMAC of the header
VerifyHeader(ov, secret) == ov.Hmac = HmacOf(secret, ov.Header)

\* Voucher.VerifyManufacturerKey: the manufacturer key hashes to keyHash
VerifyManufacturerKey(ov, keyHash) == Hash(ov.Header.ManufacturerKey) = keyHash

\* Voucher.VerifyEntries: each entry is signed by the key the entry before it
\* names, the first by the manufacturer key, and carries the right hashes
RECURSIVE VerifyEntriesFrom(_, _)
VerifyEntriesFrom(es, signerKey) ==
    IF es = <<>> THEN TRUE
    ELSE LET e == Head(es)
         IN  /\ signerKey # "error"
             /\ VerifySig(e.Signer, signerKey)
             /\ e.HashesMatch
             /\ VerifyEntriesFrom(Tail(es), Public(e.PublicKey))

VerifyEntries(ov) == VerifyEntriesFrom(ov.Entries, ov.Header.ManufacturerKey)

\* the Voucher verifyOwner builds from the to2Context and the entries
Voucher(i, es) == [Header |-> i.OVH, Hmac |-> i.OVHHmac, Entries |-> es]

(***************************************************************************)
(* The response switch of each request function                            *)
(***************************************************************************)
\* ResponseSwitch, were the case ErrorMsgType missing
ResponseSwitch_NoErrorCase(fn, expected, kind, r) ==
    CASE r.sendErr -> Err("transport", fn, "none")
      [] ~r.sendErr /\ r.typ = expected ->
            IF Decodes(r, kind) THEN NoErr ELSE Err("decode", fn, "none")
      [] OTHER -> Err("unexpected_message_type", fn, "none")

\* switch typ { case expected: decode; case ErrorMsgType: ...; default: ... }
ResponseSwitch(fn, expected, kind, r) ==
    CASE r.sendErr -> Err("transport", fn, "none")
      [] ~r.sendErr /\ r.typ = expected ->
            IF Decodes(r, kind) THEN NoErr ELSE Err("decode", fn, "none")
      [] ~r.sendErr /\ r.typ # expected /\ r.typ = ErrorMsgType ->
            IF Decodes(r, "ErrorMessage")
            THEN Err("remote", fn, r.body.payload)
            ELSE Err("decode_error_message", fn, "none")
      [] OTHER -> Err("unexpected_message_type", fn, "none")

\* the TO2 entry point: the position after function fn has returned without
\* an error
After(fn) ==
    CASE fn = "verifyOwner" -> "proveDevice_call"
      [] fn = "proveDevice" -> "readyServiceInfo_call"
      [] fn = "readyServiceInfo" -> "exchangeServiceInfo_call"
      [] fn = "exchangeServiceInfo" -> "success"

\* the run ends with error e
Fail(e) ==
    /\ pc' = "failed"
    /\ err' = e

(***************************************************************************)
(* verifyOwner: HelloDevice(60) -> ProveOVHdr(61), then GetOVNextEntry(62) *)
(* -> OVNextEntry(63) once per entry, then the checks of the voucher       *)
(***************************************************************************)
\* the ProveOVHdr structure: the signed payload, the key that signed it and
\* the two unprotected header claims (256: nonce, 257: owner public key)
ProveOVHdrBodies ==
    [kind : {"ProveOVHdr"},
     OVH : OVHeaders,
     NumOVEntries : 0..MaxEntries,
     OVHHmac : Hmacs,
     NonceTO2ProveOV : Nonces,
     signer : Keys,
     to2NonceClaim : {"n1", "missing", "malformed"},
     to2OwnerPubKeyClaim : PubKeys \cup {"missing"}]

OVNextEntryBodies ==
    [kind : {"OVNextEntry"}, OVEntryNum : 0..MaxEntries, OVEntry : VoucherEntries]

helloDeviceSwitch(r) == ResponseSwitch("helloDevice", to2ProveOVHdrMsgType, "ProveOVHdr", r)

\* helloNonceMatches, were the echoed nonce not compared
helloNonceMatches_Always(received, helloNonce) == TRUE

\* the nonce echoed in ProveOVHdr is the one sent in HelloDevice
helloNonceMatches(received, helloNonce) == received = helloNonce

\* helloDevice once Transport.Send has returned r: the error, or the to2Context
helloDeviceResult(r, helloNonce) ==
    LET sw == helloDeviceSwitch(r)
        b == r.body
        fail(kind) == [err |-> Err(kind, "helloDevice", "none"), info |-> NoInfo]
    IN  IF sw # NoErr THEN [err |-> sw, info |-> NoInfo]
        ELSE IF b.to2NonceClaim = "missing" THEN fail("nonce_header_missing")
        ELSE IF b.to2NonceClaim = "malformed" THEN fail("nonce_header_unmarshal")
        ELSE IF b.to2OwnerPubKeyClaim = "missing" THEN fail("pubkey_header_missing")
        ELSE IF Public(b.to2OwnerPubKeyClaim) = "error" THEN fail("pubkey_parse")
        ELSE IF ~VerifySig(b.signer, Public(b.to2OwnerPubKeyClaim))
             THEN fail("crypto_verify_failed")
        ELSE IF ~helloNonceMatches(b.NonceTO2ProveOV, helloNonce)
             THEN fail("nonce_mismatch")
        ELSE [err |-> NoErr,
              info |-> [set |-> TRUE,
                        ProveDvNonce |-> b.to2NonceClaim,
                        SetupDvNonce |-> "none",
                        PublicKey |-> b.to2OwnerPubKeyClaim,
                        OVH |-> b.OVH,
                        OVHHmac |-> b.OVHHmac,
                        NumVoucherEntries |-> b.NumOVEntries]]

nextOVEntrySwitch(r) == ResponseSwitch("nextOVEntry", to2OVNextEntryMsgType, "OVNextEntry", r)

\* entryNumMatches, were the echoed entry number not compared
entryNumMatches_Always(j, i) == TRUE

\* the entry number echoed in OVNextEntry is the one requested
entryNumMatches(j, i) == j = i

\* nextOVEntryResult, were any echoed entry number taken
nextOVEntryResult_AnyNumber(r, i) == nextOVEntrySwitch(r)

\* nextOVEntry(i) once Transport.Send has returned r
nextOVEntryResult(r, i) ==
    LET sw == nextOVEntrySwitch(r)
    IN  IF sw # NoErr THEN sw
        ELSE IF ~entryNumMatches(r.body.OVEntryNum, i)
             THEN Err("entry_number", "nextOVEntry", "none")
        ELSE NoErr

\* zeroEntries, were the test for zero entries left out
zeroEntries_Never(n) == FALSE

\* verifyOwner: info.NumVoucherEntries == 0
zeroEntries(n) == n = 0

\* moreEntries, were the loop to run once more
moreEntries_OneMore(i, n) == i <= n

\* verifyOwner: the condition of the loop that fetches the entries
moreEntries(i, n) == i < n

\* ownerKeyEqual, were the comparison to accept any pair of keys
ownerKeyEqual_Always(ownerPub, expectedOwnerPub) == TRUE

\* verifyOwner: ownerPub.Equal(expectedOwnerPub)
ownerKeyEqual(ownerPub, expectedOwnerPub) == ownerPub = expectedOwnerPub

\* verifyVoucher, were the check of the entry chain left out
verifyVoucher_NoEntryChain(ov, i) ==
    LET res(cs, kind) == [checks |-> cs, err |-> Err(kind, "verifyOwner", "none")]
        all == <<"header", "manufacturer_key", "entries", "owner_key">>
    IN  IF ~VerifyHeader(ov, DeviceSecret) THEN res(<<"header">>, "bad_header")
        ELSE IF ~VerifyManufacturerKey(ov, Cred.PublicKeyHash)
             THEN res(<<"header", "manufacturer_key">>, "bad_manufacturer_key")
        ELSE IF Len(ov.Entries) = 0
             THEN res(<<"header", "manufacturer_key", "entries">>, "panic_index_out_of_range")
        ELSE IF Public(ov.Entries[Len(ov.Entries)].PublicKey) = "error"
             THEN res(all, "last_key_parse")
        ELSE IF Public(i.PublicKey) # Public(ov.Entries[Len(ov.Entries)].PublicKey)
             THEN res(all, "owner_key_mismatch")
        ELSE [checks |-> all, err |-> NoErr]

\* verifyOwner once the entries are fetched: the checks it performs, in
\* order, and the error of the first that fails
verifyVoucher(ov, i) ==
    LET res(cs, kind) == [checks |-> cs, err |-> Err(kind, "verifyOwner", "none")]
    IN  IF ~VerifyHeader(ov, DeviceSecret) THEN res(<<"header">>, "bad_header")
        ELSE IF ~VerifyManufacturerKey(ov, Cred.PublicKeyHash)
             THEN res(<<"header", "manufacturer_key">>, "bad_manufacturer_key")
        ELSE IF ~VerifyEntries(ov)
             THEN res(<<"header", "manufacturer_key", "entries">>, "bad_entries")
        ELSE IF Len(ov.Entries) = 0
             THEN res(<<"header", "manufacturer_key", "entries">>, "panic_index_out_of_range")
        ELSE IF Public(ov.Entries[Len(ov.Entries)].PublicKey) = "error"
             THEN res(<<"header", "manufacturer_key", "entries", "owner_key">>,
                      "last_key_parse")
        ELSE IF Public(i.PublicKey) = "error"
             THEN res(<<"header", "manufacturer_key", "entries", "owner_key">>,
                      "owner_key_parse")
        ELSE IF ~ownerKeyEqual(Public(i.PublicKey),
                               Public(ov.Entries[Len(ov.Entries)].PublicKey))
             THEN res(<<"header", "manufacturer_key", "entries", "owner_key">>,
                      "owner_key_mismatch")
        ELSE [checks |-> <<"header", "manufacturer_key", "entries", "owner_key">>,
              err |-> NoErr]

\* the four checks of a voucher, in the order verifyOwner is to perform them
AllChecks == <<"header", "manufacturer_key", "entries", "owner_key">>

\* check c holds of voucher ov and to2Context i
CheckHolds(c, ov, i) ==
    CASE c = "header" -> VerifyHeader(ov, DeviceSecret)
      [] c = "manufacturer_key" -> VerifyManufacturerKey(ov, Cred.PublicKeyHash)
      [] c = "entries" -> VerifyEntries(ov)
      [] c = "owner_key" ->
            /\ Len(ov.Entries) > 0
            /\ Public(ov.Entries[Len(ov.Entries)].PublicKey) # "error"
            /\ Public(i.PublicKey) = Public(ov.Entries[Len(ov.Entries)].PublicKey)

\* the end of verifyOwner, from the loop's exit on; the voucher is local to
\* verifyOwner and is gone once it has returned the to2Context
verifyOwnerFinish(i, es) ==
    LET v == verifyVoucher(Voucher(i, es), i)
    IN  /\ checks' = v.checks
        /\ ovTail' = IF Len(es) = 0 THEN "none" ELSE Public(es[Len(es)].PublicKey)
        /\ ovPasses' = {AllChecks[k] : k \in {j \in 1..4 : CheckHolds(AllChecks[j], Voucher(i, es), i)}}
        /\ IF v.err # NoErr THEN Fail(v.err) /\ entries' = es
           ELSE pc' = After("verifyOwner") /\ err' = err /\ entries' = <<>>

\* helloDevice up to Transport.Send
HelloDeviceSend ==
    /\ UNCHANGED <<svcVars, kexVars, plugVars>>
    /\ pc = "verifyOwner"
    /\ \E randOK \in BOOLEAN, helloNonce \in Nonces :
         IF randOK
         THEN /\ nonce' = helloNonce
              /\ sent' = Append(sent, Req(to2HelloDeviceMsgType, 0, helloNonce))
              /\ inflight' = inflight + 1
              /\ pc' = "helloDevice"
              /\ err' = err
         ELSE /\ Fail(Err("rand", "helloDevice", "none"))
              /\ UNCHANGED <<nonce, sent, inflight>>
    /\ UNCHANGED <<lastResp, info, entries, ovTail, ovPasses, checks, replacementOVH, mtu, devOut,
                   wClosed, msg>>

\* helloDevice from the return of Transport.Send, and verifyOwner up to its
\* first call of nextOVEntry
HelloDeviceRecv ==
    /\ UNCHANGED <<svcVars, kexVars, plugVars>>
    /\ pc = "helloDevice"
    /\ \E r \in Responses(ProveOVHdrBodies) :
         LET res == helloDeviceResult(r, nonce)
         IN  /\ lastResp' = Summary(r)
             /\ info' = res.info
             /\ IF res.err # NoErr
                THEN Fail(res.err) /\ UNCHANGED <<entries, ovTail, ovPasses, checks>>
                ELSE IF zeroEntries(res.info.NumVoucherEntries)
                THEN /\ Fail(Err("zero_entries", "verifyOwner", "none"))
                     /\ UNCHANGED <<entries, ovTail, ovPasses, checks>>
                ELSE IF moreEntries(0, res.info.NumVoucherEntries)
                THEN /\ pc' = "nextOVEntry_call"
                     /\ UNCHANGED <<err, entries, ovTail, ovPasses, checks>>
                ELSE verifyOwnerFinish(res.info, <<>>)
    /\ inflight' = inflight - 1
    /\ nonce' = "none"
    /\ UNCHANGED <<sent, replacementOVH, mtu, devOut, wClosed, msg>>

\* nextOVEntry(i) up to Transport.Send
NextOVEntrySend ==
    /\ UNCHANGED <<svcVars, kexVars, plugVars>>
    /\ pc = "nextOVEntry_call"
    /\ sent' = Append(sent, Req(to2GetOVNextEntryMsgType, Len(entries), "none"))
    /\ inflight' = inflight + 1
    /\ pc' = "nextOVEntry"
    /\ UNCHANGED <<lastResp, err, nonce, info, entries, ovTail, ovPasses, checks, replacementOVH, mtu,
                   devOut, wClosed, msg>>

\* nextOVEntry(i) from the return of Transport.Send, and verifyOwner up to its
\* next call of nextOVEntry or, after the last entry, to its return
NextOVEntryRecv ==
    /\ UNCHANGED <<svcVars, kexVars, plugVars>>
    /\ pc = "nextOVEntry"
    /\ \E r \in Responses(OVNextEntryBodies) :
         LET e == nextOVEntryResult(r, Len(entries))
         IN  /\ lastResp' = Summary(r)
             /\ IF e # NoErr THEN Fail(e) /\ UNCHANGED <<entries, ovTail, ovPasses, checks>>
                ELSE IF moreEntries(Len(entries) + 1, info.NumVoucherEntries)
                THEN /\ entries' = Append(entries, r.body.OVEntry)
                     /\ pc' = "nextOVEntry_call"
                     /\ UNCHANGED <<err, ovTail, ovPasses, checks>>
                ELSE verifyOwnerFinish(info, Append(entries, r.body.OVEntry))
    /\ inflight' = inflight - 1
    /\ UNCHANGED <<sent, nonce, info, replacementOVH, mtu, devOut, wClosed, msg>>

(***************************************************************************)
(* proveDevice: ProveDevice(64) -> SetupDevice(65)                         *)
(***************************************************************************)
SetupDeviceBodies ==
    [kind : {"SetupDevice"}, GUID : {"g2"}, NonceTO2SetupDv : Nonces,
     Owner2Key : {"k2"}, signer : Keys]

proveDeviceSwitch(r) == ResponseSwitch("proveDevice", to2SetupDeviceMsgType, "SetupDevice", r)

\* the nonce echoed in SetupDevice is the one sent in ProveDevice
setupNonceMatches(received, setupDeviceNonce) == received = setupDeviceNonce

\* proveDevice once Transport.Send has returned r: the error, or the
\* replacement voucher header
proveDeviceResult(r, setupDeviceNonce, i) ==
    LET sw == proveDeviceSwitch(r)
    IN  IF sw # NoErr THEN [err |-> sw, ovh |-> NoHeader]
        ELSE IF ~setupNonceMatches(r.body.NonceTO2SetupDv, setupDeviceNonce)
             THEN [err |-> Err("nonce_mismatch", "proveDevice", "none"), ovh |-> NoHeader]
        ELSE [err |-> NoErr,
              ovh |-> [set |-> TRUE, GUID |-> r.body.GUID,
                       ManufacturerKey |-> r.body.Owner2Key]]

\* proveDevice up to Transport.Send
ProveDeviceSend ==
    /\ UNCHANGED <<svcVars, kexVars, plugVars>>
    /\ pc = "proveDevice_call"
    /\ \E randOK \in BOOLEAN, signOK \in BOOLEAN, setupDeviceNonce \in Nonces :
         IF ~randOK
         THEN /\ Fail(Err("rand", "proveDevice", "none"))
              /\ UNCHANGED <<nonce, info, sent, inflight>>
         ELSE /\ nonce' = setupDeviceNonce
              /\ info' = [info EXCEPT !.SetupDvNonce = setupDeviceNonce]
              /\ IF ~signOK
                 THEN /\ Fail(Err("sign", "proveDevice", "none"))
                      /\ UNCHANGED <<sent, inflight>>
                 ELSE /\ sent' = Append(sent, Req(to2ProveDeviceMsgType, 0, setupDeviceNonce))
                      /\ inflight' = inflight + 1
                      /\ pc' = "proveDevice"
                      /\ err' = err
    /\ UNCHANGED <<lastResp, entries, ovTail, ovPasses, checks, replacementOVH, mtu, devOut, wClosed, msg>>

\* proveDevice from the return of Transport.Send
ProveDeviceRecv ==
    /\ UNCHANGED <<svcVars, kexVars, plugVars>>
    /\ pc = "proveDevice"
    /\ \E r \in Responses(SetupDeviceBodies) :
         LET res == proveDeviceResult(r, nonce, info)
         IN  /\ lastResp' = Summary(r)
             /\ replacementOVH' = res.ovh
             /\ IF res.err # NoErr THEN Fail(res.err)
                ELSE pc' = After("proveDevice") /\ err' = err
    /\ inflight' = inflight - 1
    /\ nonce' = "none"
    /\ UNCHANGED <<sent, info, entries, ovTail, ovPasses, checks, mtu, devOut, wClosed, msg>>

(***************************************************************************)
(* readyServiceInfo: DeviceServiceInfoReady(66) -> OwnerServiceInfoReady(67)*)
(***************************************************************************)
OwnerServiceInfoReadyBodies ==
    [kind : {"OwnerServiceInfoReady"}, MaxDeviceServiceInfoSize : MtuChoices]

readyServiceInfoSwitch(r) ==
    ResponseSwitch("readyServiceInfo", to2OwnerServiceInfoReadyMsgType,
                   "OwnerServiceInfoReady", r)

\* readyServiceInfo once Transport.Send has returned r: the error, or the
\* maximum size of the device service info
readyServiceInfoResult(r) ==
    LET sw == readyServiceInfoSwitch(r)
    IN  IF sw # NoErr THEN [err |-> sw, size |-> 0]
        ELSE IF r.body.MaxDeviceServiceInfoSize = -1
             THEN [err |-> NoErr, size |-> DefaultMTU]
        ELSE [err |-> NoErr, size |-> r.body.MaxDeviceServiceInfoSize]

\* readyServiceInfo up to Transport.Send
ReadyServiceInfoSend ==
    /\ UNCHANGED <<svcVars, kexVars, plugVars>>
    /\ pc = "readyServiceInfo_call"
    /\ \E hmacOK \in BOOLEAN :
         IF ~hmacOK
         THEN /\ Fail(Err("hmac", "readyServiceInfo", "none"))
              /\ UNCHANGED <<sent, inflight>>
         ELSE /\ sent' = Append(sent, Req(to2DeviceServiceInfoReadyMsgType, 0, "none"))
              /\ inflight' = inflight + 1
              /\ pc' = "readyServiceInfo"
              /\ err' = err
    /\ UNCHANGED <<lastResp, nonce, info, entries, ovTail, ovPasses, checks, replacementOVH, mtu, devOut,
                   wClosed, msg>>

\* readyServiceInfo from the return of Transport.Send
ReadyServiceInfoRecv ==
    /\ UNCHANGED <<svcVars, kexVars, plugVars>>
    /\ pc = "readyServiceInfo"
    /\ \E r \in Responses(OwnerServiceInfoReadyBodies) :
         LET res == readyServiceInfoResult(r)
         IN  /\ lastResp' = Summary(r)
             /\ mtu' = res.size
             /\ IF res.err # NoErr THEN Fail(res.err)
                ELSE pc' = After("readyServiceInfo") /\ err' = err
    /\ inflight' = inflight - 1
    /\ UNCHANGED <<sent, nonce, info, entries, ovTail, ovPasses, checks, replacementOVH, devOut, wClosed, msg>>

(***************************************************************************)
(* exchangeServiceInfo: the loop DeviceServiceInfo(68) ->                  *)
(* OwnerServiceInfo(69), then Done(70) -> Done2(71)                        *)
(***************************************************************************)
\* The driver's side of the service-info pipes.  What the device-send pipe
\* of a round delivers is written by the caller (initInfo) or by the modules
\* of the round before: here it is an input, drawn when the pipe is made.
\* The owner-receive pipe w is seen through one fact, whether it is closed:
\* WriteChunk on a closed pipe returns an error.
\* sequences over S of length at most n
RECURSIVE SeqsUpTo(_, _)
SeqsUpTo(S, n) ==
    IF n = 0 THEN {<<>>}
    ELSE LET shorter == SeqsUpTo(S, n - 1)
         IN  shorter \cup {Append(q, x) : q \in shorter, x \in S}

\* a device-send pipe: the sizes of the chunks it still delivers and how it
\* ends, with end-of-stream or closed with an error
Pipes == [chunks : SeqsUpTo(ChunkSizes, MaxChunks), end : {"eof", "error"}]

\* a service-info key "module:message", as the sequence of its parts
SvcKeys == {<<"m1">>, <<"m1", ":", "a">>, <<"m2", ":", "a">>}

\* a received KV, known by its key
KVs == SvcKeys

OwnerServiceInfoBodies ==
    [kind : {"OwnerServiceInfo"}, IsMoreServiceInfo : BOOLEAN, IsDone : BOOLEAN,
     ServiceInfo : SeqsUpTo(KVs, MaxKV)]

Done2Bodies == [kind : {"Done2"}, NonceTO2SetupDv : Nonces]

\* ChunkReader.ReadChunk(size): a chunk, io.EOF, ErrSizeTooSmall or the error
\* the pipe was closed with
ReadChunk(pipe, size) ==
    IF pipe.chunks = <<>> THEN [result |-> pipe.end, chunk |-> 0]
    ELSE IF Head(pipe.chunks) > size THEN [result |-> "size_too_small", chunk |-> 0]
    ELSE [result |-> "chunk", chunk |-> Head(pipe.chunks)]

\* the subtraction, were it an addition
SubUint16_Adds(a, b) == (a + b) % 65536

\* uint16 subtraction
SubUint16(a, b) == (a - b) % 65536

\* exchangeServiceInfoRound: the loop that fills the DeviceServiceInfo message
RECURSIVE readChunks(_, _, _)
readChunks(pipe, left, serviceInfo) ==
    LET rc == ReadChunk(pipe, left)
    IN  CASE rc.result = "eof" ->
                [err |-> FALSE, pipe |-> pipe,
                 msg |-> [IsMoreServiceInfo |-> FALSE, ServiceInfo |-> serviceInfo]]
          [] rc.result = "size_too_small" ->
                [err |-> FALSE, pipe |-> pipe,
                 msg |-> [IsMoreServiceInfo |-> TRUE, ServiceInfo |-> serviceInfo]]
          [] rc.result = "error" ->
                [err |-> TRUE, pipe |-> pipe, msg |-> NoMsg]
          [] OTHER ->
                readChunks([pipe EXCEPT !.chunks = Tail(@)],
                           SubUint16(left, rc.chunk),
                           Append(serviceInfo, rc.chunk))

\* needsDelay, were the poll delay left out
needsDelay_Never(m) == FALSE

\* deviceServiceInfo: the request waits out the poll delay first
needsDelay(m) == Len(m.ServiceInfo) = 0

deviceServiceInfoSwitch(r) ==
    ResponseSwitch("deviceServiceInfo", to2OwnerServiceInfoMsgType, "OwnerServiceInfo", r)

\* anotherExchange, were only the owner's flag looked at
anotherExchange_OwnerOnly(m, ownerServiceInfo) == ownerServiceInfo.IsMoreServiceInfo

\* exchangeServiceInfoRound: run another exchange on the same pipes
anotherExchange(m, ownerServiceInfo) ==
    m.IsMoreServiceInfo \/ ownerServiceInfo.IsMoreServiceInfo

\* the message type exchangeServiceInfo takes for Done2
doneResponseType == to2OVNextEntryMsgType

doneSwitch(r) == ResponseSwitch("exchangeServiceInfo", doneResponseType, "Done2", r)

\* the nonce in Done2 is the setup-device nonce
doneNonceMatches(received, setupDvNonce) == received = setupDvNonce

\* exchangeServiceInfo once Transport.Send has returned r for Done
doneResult(r, setupDvNonce) ==
    LET sw == doneSwitch(r)
    IN  IF sw # NoErr THEN sw
        ELSE IF ~doneNonceMatches(r.body.NonceTO2SetupDv, setupDvNonce)
             THEN Err("nonce_mismatch", "exchangeServiceInfo", "none")
        ELSE NoErr

NumSent(typ) == Cardinality({k \in 1..Len(sent) : sent[k].typ = typ})

\* exchangeServiceInfo up to the first call of exchangeServiceInfoRound;
\* initInfo is what the caller passes as the first device service info
ExchangeServiceInfoStart ==
    /\ UNCHANGED <<svcVars, kexVars, plugVars>>
    /\ pc = "exchangeServiceInfo_call"
    /\ \E initInfo \in Pipes : devOut' = initInfo
    /\ wClosed' = FALSE
    /\ pc' = "exchangeServiceInfoRound"
    /\ UNCHANGED <<sent, inflight, lastResp, err, nonce, info, entries, ovTail, ovPasses, checks,
                   replacementOVH, mtu, msg>>

\* exchangeServiceInfoRound and deviceServiceInfo up to Transport.Send
DeviceServiceInfoSend ==
    /\ UNCHANGED <<svcVars, kexVars, plugVars>>
    /\ pc = "exchangeServiceInfoRound"
    /\ NumSent(to2DeviceServiceInfoMsgType) < MaxDeviceServiceInfo
    /\ LET rd == readChunks(devOut, mtu, <<>>)
       IN  IF rd.err
           THEN /\ Fail(Err("read_chunk", "exchangeServiceInfoRound", "none"))
                /\ wClosed' = TRUE
                /\ UNCHANGED <<sent, inflight, devOut, msg>>
           ELSE /\ devOut' = rd.pipe
                /\ msg' = rd.msg
                /\ \E cancelled \in BOOLEAN :
                     IF needsDelay(rd.msg) /\ cancelled
                     THEN /\ Fail(Err("cancelled", "deviceServiceInfo", "none"))
                          /\ wClosed' = TRUE
                          /\ UNCHANGED <<sent, inflight>>
                     ELSE /\ sent' = Append(sent, Req(to2DeviceServiceInfoMsgType, 0, "none"))
                          /\ inflight' = inflight + 1
                          /\ pc' = "deviceServiceInfo"
                          /\ UNCHANGED <<err, wClosed>>
    /\ UNCHANGED <<lastResp, nonce, info, entries, ovTail, ovPasses, checks, replacementOVH, mtu>>

\* deviceServiceInfo from the return of Transport.Send, the rest of
\* exchangeServiceInfoRound and the loop of exchangeServiceInfo up to the
\* next exchange or to Done
DeviceServiceInfoRecv ==
    /\ UNCHANGED <<svcVars, kexVars, plugVars>>
    /\ pc = "deviceServiceInfo"
    /\ \E r \in Responses(OwnerServiceInfoBodies) :
         LET sw == deviceServiceInfoSwitch(r)
         IN  /\ lastResp' = Summary(r)
             /\ IF sw # NoErr
                THEN Fail(sw) /\ wClosed' = TRUE /\ devOut' = devOut
                ELSE IF wClosed /\ Len(r.body.ServiceInfo) > 0
                THEN /\ Fail(Err("pipe_write", "exchangeServiceInfoRound", "none"))
                     /\ wClosed' = TRUE /\ devOut' = devOut
                ELSE IF anotherExchange(msg, r.body)
                THEN /\ pc' = "exchangeServiceInfoRound"
                     /\ wClosed' = (wClosed \/ ~r.body.IsMoreServiceInfo)
                     /\ UNCHANGED <<err, devOut>>
                ELSE IF r.body.IsDone
                THEN /\ pc' = "Done_call"
                     /\ wClosed' = TRUE
                     /\ UNCHANGED <<err, devOut>>
                ELSE /\ pc' = "exchangeServiceInfoRound"
                     /\ wClosed' = FALSE
                     /\ \E next \in Pipes : devOut' = next
                     /\ err' = err
    /\ inflight' = inflight - 1
    /\ UNCHANGED <<sent, nonce, info, entries, ovTail, ovPasses, checks, replacementOVH, mtu, msg>>

\* exchangeServiceInfo from the end of the loop up to Transport.Send
DoneSend ==
    /\ UNCHANGED <<svcVars, kexVars, plugVars>>
    /\ pc = "Done_call"
    /\ sent' = Append(sent, Req(to2DoneMsgType, 0, info.ProveDvNonce))
    /\ inflight' = inflight + 1
    /\ pc' = "Done"
    /\ UNCHANGED <<lastResp, err, nonce, info, entries, ovTail, ovPasses, checks, replacementOVH, mtu,
                   devOut, wClosed, msg>>

\* exchangeServiceInfo from the return of Transport.Send for Done
DoneRecv ==
    /\ UNCHANGED <<svcVars, kexVars, plugVars>>
    /\ pc = "Done"
    /\ \E r \in Responses(Done2Bodies) :
         LET e == doneResult(r, info.SetupDvNonce)
         IN  /\ lastResp' = Summary(r)
             /\ IF e # NoErr THEN Fail(e)
                ELSE pc' = After("exchangeServiceInfo") /\ err' = err
    /\ inflight' = inflight - 1
    /\ UNCHANGED <<sent, nonce, info, entries, ovTail, ovPasses, checks, replacementOVH, mtu, devOut,
                   wClosed, msg>>

Next ==
    \/ HelloDeviceSend
    \/ HelloDeviceRecv
    \/ NextOVEntrySend
    \/ NextOVEntryRecv
    \/ ProveDeviceSend
    \/ ProveDeviceRecv
    \/ ReadyServiceInfoSend
    \/ ReadyServiceInfoRecv
    \/ ExchangeServiceInfoStart
    \/ DeviceServiceInfoSend
    \/ DeviceServiceInfoRecv
    \/ DoneSend
    \/ DoneRecv

Spec == Init /\ [][Next]_vars

(***************************************************************************)
(* exchangeServiceInfo with its pipes and its handleFSIMs tasks            *)
(*                                                                         *)
(* Every iteration k >= 1 of the loop makes two pipes and starts one       *)
(* handleFSIMs task: the task reads the owner-receive pipe w of iteration  *)
(* k and writes device-send pipe k, which the round of iteration k+1       *)
(* reads.  Device-send pipe 0 is the caller's initInfo.  The pipes are     *)
(* unbuffered: a write and the read that takes it are one step, and a      *)
(* writer stays at its write until a reader comes.  What a task does       *)
(* between two blocking calls is part of the step that unblocks it.        *)
(***************************************************************************)
\* largest number of chunks of the caller's initInfo
MaxInitChunks == 2
\* the values of mtu exchangeServiceInfo is called with
SvcMtus == {1, 2}
\* the names modules are registered under (fsims)
Fsims == {<<"m1">>}
\* what a module's HandleFSIM does when invoked: the chunks it writes to the
\* device-send pipe, then the error it returns or nil
HandlerRuns == [out : SeqsUpTo(ChunkSizes, MaxChunks), fail : BOOLEAN]
\* the initInfo a caller passes
InitInfos == [chunks : SeqsUpTo(ChunkSizes, MaxInitChunks), end : {"eof", "error"}]

\* what Transport.Send returns for DeviceServiceInfo in the service-info
\* loop: an error, an OwnerServiceInfo, an Error message or another type
\* Here an OwnerServiceInfo carries no KV, one KV, or two KVs for a
\* registered module: a longer stream comes as several messages with
\* is_more_service_info set.
SvcOwnerServiceInfoBodies ==
    [kind : {"OwnerServiceInfo"}, IsMoreServiceInfo : BOOLEAN, IsDone : BOOLEAN,
     ServiceInfo : {<<>>} \cup {<<kv>> : kv \in KVs} \cup {<<kv, kv>> : kv \in Fsims}]

SvcResponses ==
    {SendError} \cup
    [sendErr : {FALSE}, typ : {to2OwnerServiceInfoMsgType}, body : SvcOwnerServiceInfoBodies] \cup
    [sendErr : {FALSE}, typ : {ErrorMsgType}, body : ErrorBodies] \cup
    [sendErr : {FALSE}, typ : {to2Done2MsgType}, body : {GarbageBody}]

\* the to2Context exchangeServiceInfo is called with
SvcContext ==
    [set |-> TRUE, ProveDvNonce |-> "n1", SetupDvNonce |-> "n2", PublicKey |-> "k1",
     OVH |-> [GUID |-> "g1", ManufacturerKey |-> "k1"],
     OVHHmac |-> HmacOf(DeviceSecret, [GUID |-> "g1", ManufacturerKey |-> "k1"]),
     NumVoucherEntries |-> 1]

NoTask == [pc |-> "none", toWrite |-> <<>>, fail |-> FALSE]
\* a handleFSIMs task blocked in recv.NextServiceInfo
RecvTask == [pc |-> "recv", toWrite |-> <<>>, fail |-> FALSE]
DoneTask == [pc |-> "done", toWrite |-> <<>>, fail |-> FALSE]

\* strings.Cut(s, sep)
RECURSIVE Cut(_, _)
Cut(s, sep) ==
    IF s = <<>> THEN [before |-> <<>>, after |-> <<>>, found |-> FALSE]
    ELSE IF Head(s) = sep THEN [before |-> <<>>, after |-> Tail(s), found |-> TRUE]
    ELSE LET c == Cut(Tail(s), sep)
         IN  [before |-> <<Head(s)>> \o c.before, after |-> c.after, found |-> c.found]

\* handleFSIM, were a key without a registered module fatal
handleFSIM_UnknownFatal(fsims, key, run) ==
    IF key \notin fsims
    THEN [invoked |-> FALSE, fsim |-> <<>>, messageName |-> <<>>, out |-> <<>>, fail |-> TRUE]
    ELSE [invoked |-> TRUE, fsim |-> key, messageName |-> Cut(key, ":").after,
          out |-> run.out, fail |-> run.fail]

\* one turn of the loop of handleFSIMs for a received key: the module looked
\* up, the message name it is invoked with and what the invocation does
handleFSIM(fsims, key, run) ==
    IF key \notin fsims
    THEN [invoked |-> FALSE, fsim |-> <<>>, messageName |-> <<>>, out |-> <<>>, fail |-> FALSE]
    ELSE [invoked |-> TRUE, fsim |-> key, messageName |-> Cut(key, ":").after,
          out |-> run.out, fail |-> run.fail]

\* where the writer of device-send pipe k stands once toWrite is what it
\* has left to write: at its next write or, with nothing left, back from the
\* handler (a handleFSIMs task, k >= 1) or done (the writer of initInfo)
afterWrite(k, toWrite, fail) ==
    IF toWrite # <<>> THEN [pc |-> "write", toWrite |-> toWrite, fail |-> fail]
    ELSE IF fail \/ k = 0 THEN DoneTask
    ELSE RecvTask

\* how the device-send pipe stands once its writer is at t: closed when the
\* writer is done, with the error if there is one (CloseWithError)
outAfter(t, fail, now) ==
    IF t.pc # "done" THEN now ELSE IF fail THEN "error" ELSE "eof"

\* device-send pipe k as its reader finds it
PipeView(k) ==
    [chunks |-> IF task[k].pc = "write" THEN task[k].toWrite ELSE <<>>, end |-> out[k]]

\* afterReadChunk, were ErrSizeTooSmall not to set IsMoreServiceInfo
afterReadChunk_NoMore(rc, m, left) ==
    CASE rc.result = "eof" -> [next |-> "send", msg |-> m, maxRead |-> left]
      [] rc.result = "size_too_small" -> [next |-> "send", msg |-> m, maxRead |-> left]
      [] rc.result = "error" -> [next |-> "fail", msg |-> m, maxRead |-> left]
      [] rc.result = "chunk" ->
            [next |-> "read",
             msg |-> [m EXCEPT !.ServiceInfo = Append(@, rc.chunk)],
             maxRead |-> SubUint16(left, rc.chunk)]

\* afterReadChunk, were a chunk that was read not appended to the message
afterReadChunk_DropsChunk(rc, m, left) ==
    CASE rc.result = "eof" -> [next |-> "send", msg |-> m, maxRead |-> left]
      [] rc.result = "size_too_small" ->
            [next |-> "send", msg |-> [m EXCEPT !.IsMoreServiceInfo = TRUE], maxRead |-> left]
      [] rc.result = "error" -> [next |-> "fail", msg |-> m, maxRead |-> left]
      [] rc.result = "chunk" ->
            [next |-> "read", msg |-> m, maxRead |-> SubUint16(left, rc.chunk)]

\* exchangeServiceInfoRound: one turn of the loop that fills the message,
\* ReadChunk having returned rc
afterReadChunk(rc, m, left) ==
    CASE rc.result = "eof" -> [next |-> "send", msg |-> m, maxRead |-> left]
      [] rc.result = "size_too_small" ->
            [next |-> "send", msg |-> [m EXCEPT !.IsMoreServiceInfo = TRUE], maxRead |-> left]
      [] rc.result = "error" -> [next |-> "fail", msg |-> m, maxRead |-> left]
      [] rc.result = "chunk" ->
            [next |-> "read",
             msg |-> [m EXCEPT !.ServiceInfo = Append(@, rc.chunk)],
             maxRead |-> SubUint16(left, rc.chunk)]

\* pollDelay, were the context not looked at
pollDelay_IgnoresContext(cancelled) == "elapsed"

\* deviceServiceInfo: the select on ctx.Done() and time.After
pollDelay(cancelled) == IF cancelled THEN "cancelled" ELSE "elapsed"

\* the poll delay of deviceServiceInfo, in seconds
PollDelaySeconds == 5

\* a DeviceServiceInfo message as recorded in svcLog, with the seconds
\* deviceServiceInfo waited before it called Transport.Send, the pipe the
\* message was filled from and what the last ReadChunk on it returned
Sent68(m, waited) ==
    [ServiceInfo |-> m.ServiceInfo, IsMoreServiceInfo |-> m.IsMoreServiceInfo,
     waited |-> waited, pipe |-> iter - 1,
     stop |-> ReadChunk(PipeView(iter - 1), maxRead).result,
     prevMore |-> lastResp.kind = "OwnerServiceInfo" /\ lastResp.more]

\* deviceServiceInfo calls Transport.Send with m
sendDeviceServiceInfo(m, waited) ==
    /\ NumSent(to2DeviceServiceInfoMsgType) < MaxDeviceServiceInfo
    /\ sent' = Append(sent, Req(to2DeviceServiceInfoMsgType, 0, "none"))
    /\ svcLog' = Append(svcLog, Sent68(m, waited))
    /\ inflight' = inflight + 1
    /\ pc' = "Send"
    /\ UNCHANGED <<err, wClosed>>

\* the variables of the driver the service-info loop leaves alone
restVars == <<nonce, info, entries, ovTail, ovPasses, checks, replacementOVH, mtu, devOut,
              kexVars, plugVars>>

SvcInit ==
    /\ pc = "loop"
    /\ sent = <<>>
    /\ inflight = 0
    /\ lastResp = NoResp
    /\ err = NoErr
    /\ nonce = "none"
    /\ info = SvcContext
    /\ entries = <<>>
    /\ ovTail = "k1"
    /\ ovPasses = {AllChecks[k] : k \in 1..4}
    /\ checks = AllChecks
    /\ replacementOVH = [set |-> TRUE, GUID |-> "g2", ManufacturerKey |-> "k2"]
    /\ mtu \in SvcMtus
    /\ devOut = NoPipe
    /\ wClosed = FALSE
    /\ msg = NoMsg
    /\ iter = 0
    /\ maxRead = 0
    /\ pending = <<>>
    /\ ctxDone = FALSE
    /\ svcLog = <<>>
    /\ recvd = <<>>
    /\ delivered = <<>>
    /\ KexIdle
    /\ PlugIdle
    /\ \E initInfo \in InitInfos :
         /\ task = [k \in 0..MaxDeviceServiceInfo |->
                       IF k > 0 THEN NoTask
                       ELSE IF initInfo.chunks = <<>> THEN DoneTask
                       ELSE [pc |-> "write", toWrite |-> initInfo.chunks,
                             fail |-> initInfo.end = "error"]]
         /\ out = [k \in 0..MaxDeviceServiceInfo |->
                       IF k = 0 /\ initInfo.chunks = <<>> THEN initInfo.end ELSE "open"]
         /\ produced = [k \in 0..MaxDeviceServiceInfo |->
                       IF k = 0 THEN initInfo.chunks ELSE <<>>]

\* the head of the loop of exchangeServiceInfo: the two pipes, go handleFSIMs
\* and the call of exchangeServiceInfoRound; svcLog, recvd, delivered and
\* produced start anew: they tell of the streams of the running iteration
StartRound ==
    /\ pc = "loop"
    /\ NumSent(to2DeviceServiceInfoMsgType) < MaxDeviceServiceInfo
    /\ iter' = iter + 1
    /\ task' = [task EXCEPT ![iter + 1] = RecvTask]
    /\ wClosed' = FALSE
    /\ maxRead' = mtu
    /\ msg' = NoMsg
    /\ pc' = "ReadChunk"
    /\ svcLog' = <<>>
    /\ recvd' = <<>>
    /\ delivered' = <<>>
    /\ produced' = [k \in DOMAIN produced |-> IF k < iter THEN <<>> ELSE produced[k]]
    /\ UNCHANGED <<sent, inflight, lastResp, err, pending, out, ctxDone>>
    /\ UNCHANGED restVars

\* exchangeServiceInfoRound: r.ReadChunk(maxRead) and what follows it, up to
\* the next ReadChunk, to the poll delay or to Transport.Send
ReadChunkStep ==
    /\ pc = "ReadChunk"
    /\ LET k == iter - 1
           rc == ReadChunk(PipeView(k), maxRead)
           a == afterReadChunk(rc, msg, maxRead)
       IN  /\ rc.result # "open"
           /\ msg' = a.msg
           /\ maxRead' = a.maxRead
           /\ CASE a.next = "read" ->
                     LET t == afterWrite(k, Tail(task[k].toWrite), task[k].fail)
                     IN  /\ task' = [task EXCEPT ![k] = t]
                         /\ out' = [out EXCEPT ![k] = outAfter(t, task[k].fail, @)]
                         /\ UNCHANGED <<pc, err, wClosed, sent, inflight, svcLog>>
                [] a.next = "fail" ->
                     /\ Fail(Err("read_chunk", "exchangeServiceInfoRound", "none"))
                     /\ wClosed' = TRUE
                     /\ UNCHANGED <<task, out, sent, inflight, svcLog>>
                [] a.next = "send" ->
                     /\ IF needsDelay(a.msg)
                        THEN pc' = "delay" /\ UNCHANGED <<err, wClosed, sent, inflight, svcLog>>
                        ELSE sendDeviceServiceInfo(a.msg, 0)
                     /\ UNCHANGED <<task, out>>
    /\ UNCHANGED <<lastResp, iter, pending, ctxDone, produced, recvd, delivered>>
    /\ UNCHANGED restVars

\* deviceServiceInfo: the select of the poll delay, then Transport.Send
PollDelay ==
    /\ pc = "delay"
    /\ IF pollDelay(ctxDone) = "cancelled"
       THEN /\ Fail(Err("cancelled", "deviceServiceInfo", "none"))
            /\ wClosed' = TRUE
            /\ UNCHANGED <<sent, inflight, svcLog>>
       ELSE sendDeviceServiceInfo(msg, PollDelaySeconds)
    /\ UNCHANGED <<lastResp, msg, iter, maxRead, pending, out, task, ctxDone, produced, recvd,
                   delivered>>
    /\ UNCHANGED restVars

\* the caller cancels the context.  The loop looks at the context in the
\* select of the poll delay only, so a cancellation is taken to happen there.
CancelContext ==
    /\ ~ctxDone
    /\ pc = "delay"
    /\ ctxDone' = TRUE
    /\ UNCHANGED <<pc, sent, inflight, lastResp, err, wClosed, msg, iter, maxRead, pending, out,
                   task, svcLog, produced, recvd, delivered>>
    /\ UNCHANGED restVars

\* deviceServiceInfo from the return of Transport.Send
OwnerServiceInfoReturn ==
    /\ pc = "Send"
    /\ \E r \in SvcResponses :
         LET sw == deviceServiceInfoSwitch(r)
         IN  /\ lastResp' = Summary(r)
             /\ IF sw # NoErr
                THEN /\ Fail(sw)
                     /\ wClosed' = TRUE
                     /\ UNCHANGED <<pending, recvd>>
                ELSE /\ pending' = r.body.ServiceInfo
                     /\ recvd' = recvd \o r.body.ServiceInfo
                     /\ pc' = "WriteChunk"
                     /\ UNCHANGED <<err, wClosed>>
    /\ inflight' = inflight - 1
    /\ UNCHANGED <<sent, msg, iter, maxRead, out, task, ctxDone, svcLog, produced, delivered>>
    /\ UNCHANGED restVars

\* exchangeServiceInfoRound: w.WriteChunk(kv) for the next KV of the response.
\* The handleFSIMs of the iteration takes it from recv.NextServiceInfo and
\* runs up to its next blocking call.
WriteChunkStep ==
    /\ pc = "WriteChunk"
    /\ pending # <<>>
    /\ IF wClosed
       THEN /\ Fail(Err("pipe_write", "exchangeServiceInfoRound", "none"))
            /\ UNCHANGED <<pending, task, out, produced, delivered>>
       ELSE /\ task[iter].pc = "recv"
            /\ \E run \in HandlerRuns :
                 LET key == Head(pending)
                     h == handleFSIM(Fsims, key, run)
                     t == afterWrite(iter, h.out, h.fail)
                 IN  /\ delivered' = Append(delivered,
                                            [key |-> key, iter |-> iter, invoked |-> h.invoked,
                                             fsim |-> h.fsim, messageName |-> h.messageName,
                                             fail |-> h.fail])
                     /\ task' = [task EXCEPT ![iter] = t]
                     /\ out' = [out EXCEPT ![iter] = outAfter(t, h.fail, @)]
                     /\ produced' = [produced EXCEPT ![iter] = @ \o h.out]
            /\ pending' = Tail(pending)
            /\ UNCHANGED <<pc, err>>
    /\ UNCHANGED <<sent, inflight, lastResp, wClosed, msg, iter, maxRead, ctxDone, svcLog, recvd>>
    /\ UNCHANGED restVars

\* exchangeServiceInfoRound once the KVs are written: w.Close() if the owner
\* has no more, then another exchange on the same pipes or the return to the
\* loop of exchangeServiceInfo, which goes on or breaks
RoundEnd ==
    /\ pc = "WriteChunk"
    /\ pending = <<>>
    /\ IF anotherExchange(msg, [IsMoreServiceInfo |-> lastResp.more])
       THEN /\ wClosed' = (wClosed \/ ~lastResp.more)
            /\ maxRead' = mtu
            /\ msg' = NoMsg
            /\ pc' = "ReadChunk"
       ELSE /\ wClosed' = TRUE
            /\ pc' = IF lastResp.done THEN "Done_call" ELSE "loop"
            /\ UNCHANGED <<maxRead, msg>>
    /\ UNCHANGED <<sent, inflight, lastResp, err, iter, pending, out, task, ctxDone, svcLog,
                   produced, recvd, delivered>>
    /\ UNCHANGED restVars

\* handleFSIMs: recv.NextServiceInfo reports the end of the input, the task
\* returns and its deferred send.Close() runs
HandleFSIMsReturn ==
    /\ \E k \in 1..iter :
         /\ task[k].pc = "recv"
         /\ k < iter \/ wClosed
         /\ task' = [task EXCEPT ![k] = DoneTask]
         /\ out' = [out EXCEPT ![k] = "eof"]
    /\ UNCHANGED <<pc, sent, inflight, lastResp, err, wClosed, msg, iter, maxRead, pending,
                   ctxDone, svcLog, produced, recvd, delivered>>
    /\ UNCHANGED restVars

SvcNext ==
    \/ StartRound
    \/ ReadChunkStep
    \/ PollDelay
    \/ CancelContext
    \/ OwnerServiceInfoReturn
    \/ WriteChunkStep
    \/ RoundEnd
    \/ HandleFSIMsReturn
    \/ DoneSend
    \/ DoneRecv

SvcSpec == SvcInit /\ [][SvcNext]_vars

(***************************************************************************)
(* Key-exchange session (kex/rsadh.go)                                     *)
(*                                                                         *)
(* A *big.Int is Nil or Some(n).  The MODP primes are small primes of      *)
(* which 2 is a generator; the random private values are 0..MaxPrivate.    *)
(* The key derivation is symbolic: byte i of kdf(hash, secret, bits) is    *)
(* <<hash, secret, i>>.                                                    *)
(***************************************************************************)
\* the largest private random value
MaxPrivate == 3
\* the most lines the sessions write to the log
MaxLog == 2

Privates == 0..MaxPrivate

\* the registered suites (DHKEXid14, DHKEXid15)
KexSuites ==
    {[name |-> "DHKEXid14", p |-> 11, g |-> 2, paramSize |-> 32],
     [name |-> "DHKEXid15", p |-> 13, g |-> 2, paramSize |-> 96]}

\* the cipher suites: key sizes in bytes, MacAlg 0 when the cipher has no MAC
CipherSuites ==
    {[ID |-> "aead", PRFHash |-> "h256", EncryptAlgKeySize |-> 2, MacAlg |-> 0,
      MacAlgKeySize |-> 0],
     [ID |-> "ctr_hmac", PRFHash |-> "h384", EncryptAlgKeySize |-> 1, MacAlg |-> 5,
      MacAlgKeySize |-> 1]}

\* CipherSuiteID.Suite
CipherSuite(id) == CHOOSE c \in CipherSuites : c.ID = id

\* parameters a peer may send that no session computed
PeerParams == {<<>>, <<0>>, <<3>>}

\* big.Int.Bytes: big-endian, no leading zero byte, empty for zero
RECURSIVE BigBytes(_)
BigBytes(n) == IF n = 0 THEN <<>> ELSE BigBytes(n \div 256) \o <<n % 256>>

\* big.Int.SetBytes
RECURSIVE SetBytes(_)
SetBytes(bs) ==
    IF bs = <<>> THEN 0
    ELSE SetBytes(SubSeq(bs, 1, Len(bs) - 1)) * 256 + bs[Len(bs)]

\* big.Int.Exp(x, y, m) for y >= 0 and m > 1
RECURSIVE Exp(_, _, _)
Exp(x, y, m) == IF y = 0 THEN 1 % m ELSE (x * Exp(x, y - 1, m)) % m

kdf(hash, secret, bits) == [i \in 1..(bits \div 8) |-> <<hash, secret, i>>]

\* the session a registered suite creates: xA is Nil or Some(bytes)
NewSession(suite, xA, cipher) ==
    [p |-> suite.p, g |-> suite.g, paramSize |-> suite.paramSize,
     a |-> Nil, xA |-> IF xA # Nil THEN Some(SetBytes(Val(xA))) ELSE Nil,
     b |-> Nil, xB |-> Nil,
     ID |-> cipher, SEK |-> <<>>, SVK |-> <<>>]

rsaSymmetricKey_OtherOnly(other, own, p, cipher) ==
    LET shSe == BigBytes(other % p)
        sekSize == cipher.EncryptAlgKeySize
        svkSize == IF cipher.MacAlg # 0 THEN cipher.MacAlgKeySize ELSE 0
        symKey == kdf(cipher.PRFHash, shSe, (sekSize + svkSize) * 8)
    IN  [sek |-> SubSeq(symKey, 1, sekSize), svk |-> SubSeq(symKey, sekSize + 1, Len(symKey))]

rsaSymmetricKey(other, own, p, cipher) ==
    LET shSe == BigBytes(Exp(other, own, p))
        sekSize == cipher.EncryptAlgKeySize
        svkSize == IF cipher.MacAlg # 0 THEN cipher.MacAlgKeySize ELSE 0
        symKey == kdf(cipher.PRFHash, shSe, (sekSize + svkSize) * 8)
    IN  [sek |-> SubSeq(symKey, 1, sekSize), svk |-> SubSeq(symKey, sekSize + 1, Len(symKey))]

\* Parameter with the random value x read: the session after the call and
\* the bytes returned
Parameter(s, x) ==
    LET xX == Exp(s.g, x, s.p)
        k == rsaSymmetricKey(Val(s.xA), x, s.p, CipherSuite(s.ID))
    IN  IF s.xA = Nil
        THEN [s |-> [s EXCEPT !.a = Some(x)], out |-> BigBytes(xX)]
        ELSE [s |-> [s EXCEPT !.b = Some(x), !.SEK = k.sek, !.SVK = k.svk],
              out |-> BigBytes(xX)]

\* fmt's %#v of a *RSADHSession: an unexported *big.Int field prints as an
\* address, the exported fields of the embedded SessionCrypter print by value
GoSyntax(s) ==
    LET ptr(i) == IF i = Nil THEN "nil" ELSE "ptr"
    IN  [p |-> "ptr", g |-> s.g, paramSize |-> s.paramSize,
         a |-> ptr(s.a), xA |-> ptr(s.xA), b |-> ptr(s.b), xB |-> ptr(s.xB),
         ID |-> s.ID, SEK |-> s.SEK, SVK |-> s.SVK]

\* SetParameter: the session after the call, the line logged, and whether
\* Exp dereferenced a nil s.a
SetParameter(s, xB) ==
    LET s1 == [s EXCEPT !.xB = Some(SetBytes(xB))]
        k == rsaSymmetricKey(Val(s1.xB), Val(s1.a), s1.p, CipherSuite(s1.ID))
    IN  IF s1.a = Nil
        THEN [s |-> s1, log |-> GoSyntax(s1), panic |-> TRUE]
        ELSE [s |-> [s1 EXCEPT !.SEK = k.sek, !.SVK = k.svk],
              log |-> GoSyntax(s1), panic |-> FALSE]

\* cbor.Marshal and cbor.Unmarshal of an rsadhPersist: an array of the
\* fields in their order
cborMarshal(persist) ==
    <<persist.Prime, persist.Generator, persist.ParamSize, persist.ParamA,
      persist.ParamXA, persist.ParamB, persist.ParamXB, persist.Cipher,
      persist.SEK, persist.SVK>>

cborUnmarshal(data) ==
    [Prime |-> data[1], Generator |-> data[2], ParamSize |-> data[3],
     ParamA |-> data[4], ParamXA |-> data[5], ParamB |-> data[6],
     ParamXB |-> data[7], Cipher |-> data[8], SEK |-> data[9], SVK |-> data[10]]

MarshalCBOR(s) ==
    cborMarshal([Prime |-> BigBytes(s.p), Generator |-> s.g, ParamSize |-> s.paramSize,
                 ParamA |-> IF s.a # Nil THEN BigBytes(Val(s.a)) ELSE <<>>,
                 ParamXA |-> IF s.xA # Nil THEN BigBytes(Val(s.xA)) ELSE <<>>,
                 ParamB |-> IF s.b # Nil THEN BigBytes(Val(s.b)) ELSE <<>>,
                 ParamXB |-> IF s.xB # Nil THEN BigBytes(Val(s.xB)) ELSE <<>>,
                 Cipher |-> s.ID, SEK |-> s.SEK, SVK |-> s.SVK])

UnmarshalCBOR(data) ==
    LET persist == cborUnmarshal(data)
        int(bs) == IF Len(bs) > 0 THEN Some(SetBytes(bs)) ELSE Nil
    IN  [p |-> SetBytes(persist.Prime), g |-> persist.Generator,
         paramSize |-> persist.ParamSize,
         a |-> int(persist.ParamA), xA |-> int(persist.ParamXA),
         b |-> int(persist.ParamB), xB |-> int(persist.ParamXB),
         ID |-> persist.Cipher, SEK |-> persist.SEK, SVK |-> persist.SVK]

\* the driver and the service-info loop are not running
DriverIdle ==
    /\ pc = "none"
    /\ sent = <<>>
    /\ inflight = 0
    /\ lastResp = NoResp
    /\ err = NoErr
    /\ nonce = "none"
    /\ info = NoInfo
    /\ entries = <<>>
    /\ ovTail = "none"
    /\ ovPasses = {}
    /\ checks = <<>>
    /\ replacementOVH = NoHeader
    /\ mtu = 0
    /\ devOut = NoPipe
    /\ wClosed = FALSE
    /\ msg = NoMsg
    /\ iter = 0
    /\ maxRead = 0
    /\ pending = <<>>
    /\ out = <<>>
    /\ task = <<>>
    /\ ctxDone = FALSE
    /\ svcLog = <<>>
    /\ produced = <<>>
    /\ recvd = <<>>
    /\ delivered = <<>>

driverVars == <<pc, sent, inflight, lastResp, err, nonce, info, entries, ovTail, ovPasses,
                checks, replacementOVH, mtu, devOut, wClosed, msg, svcVars>>

\* the owner's session, created by a registered suite without a peer parameter
KexInit ==
    /\ DriverIdle
    /\ PlugIdle
    /\ \E suite \in KexSuites, cipher \in CipherSuites :
         owner = Some(NewSession(suite, Nil, cipher.ID))
    /\ device = Nil
    /\ xAOut = Nil
    /\ xBOut = Nil
    /\ kexLog = <<>>
    /\ kexPanic = FALSE

\* the owner calls Parameter, before it has the device's parameter
OwnerParameter ==
    /\ ~kexPanic
    /\ Val(owner).xB = Nil
    /\ \E randOK \in BOOLEAN, x \in Privates :
         IF randOK
         THEN /\ owner' = Some(Parameter(Val(owner), x).s)
              /\ xAOut' = Some(Parameter(Val(owner), x).out)
         ELSE UNCHANGED <<owner, xAOut>>
    /\ UNCHANGED <<device, xBOut, kexLog, kexPanic, driverVars, plugVars>>

\* the device's session is created with the parameter it received, of the
\* owner's suite and cipher
NewDevice ==
    /\ ~kexPanic
    /\ device = Nil
    /\ \E xA \in (IF xAOut = Nil THEN {} ELSE {Val(xAOut)}) \cup PeerParams :
         \E suite \in {su \in KexSuites : su.p = Val(owner).p} :
            device' = Some(NewSession(suite, Some(xA), Val(owner).ID))
    /\ UNCHANGED <<owner, xAOut, xBOut, kexLog, kexPanic, driverVars, plugVars>>

\* the device calls Parameter
DeviceParameter ==
    /\ ~kexPanic
    /\ device # Nil
    /\ \E randOK \in BOOLEAN, x \in Privates :
         IF randOK
         THEN /\ device' = Some(Parameter(Val(device), x).s)
              /\ xBOut' = Some(Parameter(Val(device), x).out)
         ELSE UNCHANGED <<device, xBOut>>
    /\ UNCHANGED <<owner, xAOut, kexLog, kexPanic, driverVars, plugVars>>

\* the owner calls SetParameter with the parameter it received
OwnerSetParameter ==
    /\ ~kexPanic
    /\ Len(kexLog) < MaxLog
    /\ \E xB \in (IF xBOut = Nil THEN {} ELSE {Val(xBOut)}) \cup PeerParams :
         LET r == SetParameter(Val(owner), xB)
         IN  /\ owner' = Some(r.s)
             /\ kexLog' = Append(kexLog, r.log)
             /\ kexPanic' = r.panic
    /\ UNCHANGED <<device, xAOut, xBOut, driverVars, plugVars>>

\* a session is persisted and restored
RestoreOwner ==
    /\ ~kexPanic
    /\ owner' = Some(UnmarshalCBOR(MarshalCBOR(Val(owner))))
    /\ owner' # owner
    /\ UNCHANGED <<device, xAOut, xBOut, kexLog, kexPanic, driverVars, plugVars>>

RestoreDevice ==
    /\ ~kexPanic
    /\ device # Nil
    /\ device' = Some(UnmarshalCBOR(MarshalCBOR(Val(device))))
    /\ device' # device
    /\ UNCHANGED <<owner, xAOut, xBOut, kexLog, kexPanic, driverVars, plugVars>>

KexNext ==
    \/ OwnerParameter
    \/ NewDevice
    \/ DeviceParameter
    \/ OwnerSetParameter
    \/ RestoreOwner
    \/ RestoreDevice

KexSpec == KexInit /\ [][KexNext]_vars

(***************************************************************************)
(* PluginDeviceModule (fsim)                                               *)
(*                                                                         *)
(* The plugin is known by what its Start, and the writes and reads of the  *)
(* plugin protocol, return.                                                *)
(***************************************************************************)
\* the most calls made on the module
MaxCalls == 3

\* the errors Start may return
StartErrors == {"start_e1", "start_e2"}

\* errors.New("plugin module not activated")
NotActivated == "plugin module not activated"

\* sync.Once.Do, were it to run its function on every call
onceRuns_Always(done) == TRUE

\* sync.Once.Do runs its function if no call of Do has run it
onceRuns(done) == ~done

\* the guard of Receive and of Yield
notActivated(p) == p = "nil"

\* a call on the module as recorded in calls: started tells that it called
\* m.Start, sends how many messages it sent to the plugin
Call(op, active, ret, started, sends) ==
    [op |-> op, active |-> active, ret |-> ret, started |-> started, sends |-> sends]

PlugInit ==
    /\ DriverIdle
    /\ KexIdle
    /\ PlugIdle

\* Transition(active)
Transition ==
    /\ Len(calls) < MaxCalls
    /\ \E active \in BOOLEAN, startErr \in {"nil"} \cup StartErrors :
         IF ~active
         THEN /\ calls' = Append(calls, Call("Transition", FALSE, "nil", FALSE, 0))
              /\ UNCHANGED <<once, proto, merr, starts, toPlugin>>
         ELSE IF onceRuns(once)
         THEN /\ once' = TRUE
              /\ starts' = starts + 1
              /\ merr' = IF startErr # "nil" THEN startErr ELSE merr
              /\ proto' = IF startErr # "nil" THEN proto ELSE "set"
              /\ calls' = Append(calls, Call("Transition", TRUE, merr', TRUE, 0))
              /\ UNCHANGED toPlugin
         ELSE /\ calls' = Append(calls, Call("Transition", TRUE, merr, FALSE, 0))
              /\ UNCHANGED <<once, proto, merr, starts, toPlugin>>
    /\ UNCHANGED <<driverVars, kexVars>>

\* Receive: decode the body, send the message name, encode the value
Receive ==
    /\ Len(calls) < MaxCalls
    /\ \E outcome \in {"decode_error", "send_error", "encode_error", "nil"} :
         IF notActivated(proto)
         THEN /\ calls' = Append(calls, Call("Receive", FALSE, NotActivated, FALSE, 0))
              /\ UNCHANGED toPlugin
         ELSE LET sends == CASE outcome = "decode_error" -> <<>>
                             [] outcome = "send_error" -> <<>>
                             [] outcome = "encode_error" -> <<"dKey">>
                             [] outcome = "nil" -> <<"dKey", "value">>
              IN  /\ toPlugin' = toPlugin \o sends
                  /\ calls' = Append(calls, Call("Receive", FALSE, outcome, FALSE, Len(sends)))
    /\ UNCHANGED <<once, proto, merr, starts, driverVars, kexVars>>

\* Yield: send dYield, then read until the plugin yields
Yield ==
    /\ Len(calls) < MaxCalls
    /\ \E outcome \in {"send_error", "recv_error", "invalid_data", "nil"} :
         IF notActivated(proto)
         THEN /\ calls' = Append(calls, Call("Yield", FALSE, NotActivated, FALSE, 0))
              /\ UNCHANGED toPlugin
         ELSE LET sends == IF outcome = "send_error" THEN <<>> ELSE <<"dYield">>
              IN  /\ toPlugin' = toPlugin \o sends
                  /\ calls' = Append(calls, Call("Yield", FALSE, outcome, FALSE, Len(sends)))
    /\ UNCHANGED <<once, proto, merr, starts, driverVars, kexVars>>

PlugNext ==
    \/ Transition
    \/ Receive
    \/ Yield

PlugSpec == PlugInit /\ [][PlugNext]_vars

(***************************************************************************)
(* What the properties observe                                             *)
(***************************************************************************)
HasSent(typ) == \E k \in 1..Len(sent) : sent[k].typ = typ
LastSent == sent[Len(sent)]
SentTypes == [k \in 1..Len(sent) |-> sent[k].typ]

\* the last call of Transport.Send was for a request of type typ and has
\* returned, so that lastResp is what it returned
Responded(typ) == sent # <<>> /\ inflight = 0 /\ LastSent.typ = typ

\* verifyOwner has returned a to2Context
VerifyOwnerReturnedContext ==
    /\ pc \notin {"verifyOwner", "helloDevice", "nextOVEntry_call", "nextOVEntry"}
    /\ ~(pc = "failed" /\ err.in \in {"helloDevice", "nextOVEntry", "verifyOwner"})

\* verifyOwner has run its checks on a voucher
VoucherChecked == ovTail # "none"

(***************************************************************************)
(* C1: verifyOwner returns a to2Context only if the owner public key       *)
(* claimed in ProveOVHdr's unprotected header equals the public key of the *)
(* last entry of the fetched voucher; whenever the two keys differ,        *)
(* verifyOwner returns an error.                                           *)
(***************************************************************************)
C1_OwnerKeyIsVoucherTail ==
    /\ VerifyOwnerReturnedContext =>
          /\ ovTail \in Keys
          /\ Public(info.PublicKey) = ovTail
    /\ (VoucherChecked /\ Public(info.PublicKey) # ovTail) =>
          /\ pc = "failed"
          /\ err.in = "verifyOwner"
          /\ err.kind # "none"

\* verifyOwner has accepted a voucher of two entries
C1_Witness ==
    /\ pc = "proveDevice_call"
    /\ info.NumVoucherEntries = 2
    /\ checks = AllChecks

(***************************************************************************)
(* C2: voucher verification starts only after all num_ov_entries entries   *)
(* have been fetched and runs in the order header HMAC, manufacturer key,  *)
(* entry chain, owner key; the first failing check ends verifyOwner with   *)
(* an error and no later check is performed, so that no to2Context is      *)
(* returned and ProveDevice(64) is never sent for a voucher that fails any *)
(* of the checks.                                                          *)
(***************************************************************************)
C2_VerificationOrder ==
    /\ \E k \in 0..4 : checks = SubSeq(AllChecks, 1, k)
    /\ checks # <<>> =>
          /\ VoucherChecked
          /\ NumSent(to2GetOVNextEntryMsgType) = info.NumVoucherEntries
          /\ pc \notin {"nextOVEntry_call", "nextOVEntry"}
          /\ \A k \in 1..(Len(checks) - 1) : checks[k] \in ovPasses
          /\ Len(checks) < 4 => checks[Len(checks)] \notin ovPasses
    /\ (VoucherChecked /\ ovPasses # {AllChecks[k] : k \in 1..4}) =>
          /\ pc = "failed"
          /\ err.in = "verifyOwner"
          /\ checks # <<>>
          /\ checks[Len(checks)] \notin ovPasses
          /\ ~VerifyOwnerReturnedContext
          /\ ~HasSent(to2ProveDeviceMsgType)

\* a voucher whose second entry is tampered with is rejected by the check of
\* the entry chain, after both entries were fetched
C2_Witness ==
    /\ pc = "failed"
    /\ err.kind = "bad_entries"
    /\ Len(entries) = 2
    /\ entries[1].HashesMatch
    /\ ~entries[2].HashesMatch
    /\ checks = <<"header", "manufacturer_key", "entries">>
    /\ NumSent(to2GetOVNextEntryMsgType) = 2

(***************************************************************************)
(* C10: if ProveOVHdr reports num_ov_entries = 0, verifyOwner rejects the  *)
(* voucher with an error, sends no GetOVNextEntry(62) and performs no      *)
(* voucher verification.                                                   *)
(***************************************************************************)
C10_ZeroEntriesRejected ==
    (info.set /\ info.NumVoucherEntries = 0) =>
        /\ pc = "failed"
        /\ err.kind = "zero_entries"
        /\ ~HasSent(to2GetOVNextEntryMsgType)
        /\ checks = <<>>
        /\ ~VoucherChecked
        /\ ovPasses = {}

\* a ProveOVHdr with no entries was accepted by helloDevice and rejected by
\* verifyOwner
C10_Witness ==
    /\ info.set
    /\ info.NumVoucherEntries = 0
    /\ lastResp.typ = to2ProveOVHdrMsgType
    /\ err.kind = "zero_entries"

(***************************************************************************)
(* C3: a nonce echo the driver accepts equals the nonce it sent.           *)
(* helloDevice succeeds only if the nonce in the ProveOVHdr payload is the *)
(* hello nonce of that HelloDevice, proveDevice only if the nonce in       *)
(* SetupDevice is the setup-device nonce of that ProveDevice, and the Done *)
(* exchange only if the nonce in the response is that same setup-device    *)
(* nonce; a nonce that differs yields an error.                            *)
(***************************************************************************)
\* the request of type typ in sent (there is at most one of 60, 64, 70)
TheSent(typ) == sent[CHOOSE k \in 1..Len(sent) : sent[k].typ = typ]

C3_AcceptedNonceIsSentNonce ==
    /\ Responded(to2HelloDeviceMsgType) =>
          /\ info.set =>
                /\ lastResp.kind = "ProveOVHdr"
                /\ lastResp.nonce = LastSent.nonce
          /\ (lastResp.kind = "ProveOVHdr" /\ lastResp.nonce # LastSent.nonce) =>
                pc = "failed" /\ err.in = "helloDevice" /\ ~info.set
    /\ Responded(to2ProveDeviceMsgType) =>
          /\ replacementOVH.set =>
                /\ lastResp.kind = "SetupDevice"
                /\ lastResp.nonce = LastSent.nonce
                /\ info.SetupDvNonce = LastSent.nonce
          /\ (lastResp.kind = "SetupDevice" /\ lastResp.nonce # LastSent.nonce) =>
                pc = "failed" /\ err.in = "proveDevice" /\ ~replacementOVH.set
    /\ Responded(to2DoneMsgType) =>
          /\ pc = "success" =>
                /\ lastResp.kind = "Done2"
                /\ lastResp.nonce = TheSent(to2ProveDeviceMsgType).nonce
          /\ (lastResp.kind = "Done2"
                /\ lastResp.nonce # TheSent(to2ProveDeviceMsgType).nonce) =>
                pc = "failed" /\ err.in = "exchangeServiceInfo"

\* the run has succeeded: all three echoes were accepted
C3_Witness ==
    /\ pc = "success"
    /\ lastResp.kind = "Done2"
    /\ lastResp.nonce = "n2"
    /\ sent[1].nonce = "n1"

(***************************************************************************)
(* C4: proveDevice accepts a SetupDevice(65) response, and returns a       *)
(* replacement voucher header built from it, only if the signature of the  *)
(* response verifies under the owner public key validated against the      *)
(* voucher's last entry.                                                   *)
(***************************************************************************)
C4_SetupDeviceSignedByOwner ==
    (Responded(to2ProveDeviceMsgType) /\ replacementOVH.set) =>
        VerifySig(lastResp.signer, Public(info.PublicKey))

(***************************************************************************)
(* C5: requests are issued in the order HelloDevice(60), GetOVNextEntry(62)*)
(* once per voucher entry, ProveDevice(64), DeviceServiceInfoReady(66),    *)
(* one or more DeviceServiceInfo(68), Done(70); a request is sent only     *)
(* after the response to the request before it has been received and       *)
(* accepted, and at no time are two requests outstanding.                  *)
(***************************************************************************)
\* the pairs of request types that may follow one another
Successions ==
    {<<to2HelloDeviceMsgType, to2GetOVNextEntryMsgType>>,
     <<to2GetOVNextEntryMsgType, to2GetOVNextEntryMsgType>>,
     <<to2GetOVNextEntryMsgType, to2ProveDeviceMsgType>>,
     <<to2ProveDeviceMsgType, to2DeviceServiceInfoReadyMsgType>>,
     <<to2DeviceServiceInfoReadyMsgType, to2DeviceServiceInfoMsgType>>,
     <<to2DeviceServiceInfoMsgType, to2DeviceServiceInfoMsgType>>,
     <<to2DeviceServiceInfoMsgType, to2DoneMsgType>>}

\* the body a response to a request of type typ is to carry
ResponseKind(typ) ==
    CASE typ = to2HelloDeviceMsgType -> "ProveOVHdr"
      [] typ = to2GetOVNextEntryMsgType -> "OVNextEntry"
      [] typ = to2ProveDeviceMsgType -> "SetupDevice"
      [] typ = to2DeviceServiceInfoReadyMsgType -> "OwnerServiceInfoReady"
      [] typ = to2DeviceServiceInfoMsgType -> "OwnerServiceInfo"
      [] typ = to2DoneMsgType -> "Done2"

RequestOrder ==
    /\ sent # <<>> => sent[1].typ = to2HelloDeviceMsgType
    /\ \A k \in 1..(Len(sent) - 1) : <<sent[k].typ, sent[k + 1].typ>> \in Successions
    /\ HasSent(to2ProveDeviceMsgType) =>
          NumSent(to2GetOVNextEntryMsgType) = info.NumVoucherEntries
    /\ HasSent(to2GetOVNextEntryMsgType) =>
          /\ info.set
          /\ NumSent(to2GetOVNextEntryMsgType) <= info.NumVoucherEntries
          /\ \A k \in 1..Len(sent) : sent[k].typ = to2GetOVNextEntryMsgType => sent[k].num = k - 2
    /\ inflight \in {0, 1}

SendsAfterAcceptedResponse ==
    sent' # sent =>
        /\ inflight = 0
        /\ inflight' = 1
        /\ err = NoErr
        /\ Len(sent') = Len(sent) + 1
        /\ SubSeq(sent', 1, Len(sent)) = sent
        /\ sent # <<>> =>
              /\ lastResp.typ = LastSent.typ + 1
              /\ lastResp.kind = ResponseKind(LastSent.typ)

C5_RequestsInOrder == [](sent # <<>> => RequestOrder) /\ [][SendsAfterAcceptedResponse]_vars

\* Done has been sent after two entries and two DeviceServiceInfo
C5_Witness ==
    /\ pc = "Done"
    /\ SentTypes = <<60, 62, 62, 64, 66, 68, 68, 70>>
    /\ inflight = 1

(***************************************************************************)
(* C6: the response to Done(70) is accepted as Done2 only when its message *)
(* type is 71: a response of type 71 with the right setup-device nonce     *)
(* makes exchangeServiceInfo return success, and a response of any other   *)
(* type but Error, 63 (OVNextEntry) included, is rejected as an unexpected *)
(* message type.                                                           *)
(***************************************************************************)
C6_Done2IsType71 ==
    Responded(to2DoneMsgType) =>
        /\ (/\ lastResp.typ = to2Done2MsgType
            /\ lastResp.kind = "Done2"
            /\ lastResp.nonce = info.SetupDvNonce) => pc = "success"
        /\ (/\ lastResp.kind # "send_error"
            /\ lastResp.typ \notin {to2Done2MsgType, ErrorMsgType}) =>
                pc = "failed" /\ err.kind = "unexpected_message_type"

(***************************************************************************)
(* C7: Done(70) is sent only after an OwnerServiceInfo with is_done = true *)
(* was received in an exchange in which neither the device's request nor   *)
(* the owner's response had is_more_service_info = true.  An is_done =     *)
(* true in a response where either side has more is not honoured: the      *)
(* driver goes on to another DeviceServiceInfo(68), and without is_done    *)
(* the loop goes on as well.                                               *)
(***************************************************************************)
C7_DoneOnlyAfterIsDone ==
    /\ pc \in {"Done_call", "Done"} =>
          /\ lastResp.typ = to2OwnerServiceInfoMsgType
          /\ lastResp.kind = "OwnerServiceInfo"
          /\ lastResp.done
          /\ ~lastResp.more
          /\ ~msg.IsMoreServiceInfo
    /\ HasSent(to2DoneMsgType) => HasSent(to2DeviceServiceInfoMsgType)
    /\ (/\ Responded(to2DeviceServiceInfoMsgType)
        /\ lastResp.typ = to2OwnerServiceInfoMsgType
        /\ lastResp.kind = "OwnerServiceInfo"
        /\ (lastResp.more \/ msg.IsMoreServiceInfo \/ ~lastResp.done)) =>
          /\ pc \in {"exchangeServiceInfoRound", "failed"}
          /\ ~HasSent(to2DoneMsgType)

\* is_done = true arrived while the device had more to send: the driver is
\* about to send another DeviceServiceInfo
C7_Witness ==
    /\ pc = "exchangeServiceInfoRound"
    /\ Responded(to2DeviceServiceInfoMsgType)
    /\ lastResp.done
    /\ ~lastResp.more
    /\ msg.IsMoreServiceInfo

(***************************************************************************)
(* C8: no error is recovered inside the driver: once a step fails          *)
(* (Transport.Send error, undecodable response, unexpected response type,  *)
(* nonce mismatch, wrong echoed entry number, failed verification) the run *)
(* ends with an error, the request is not retried and no further request   *)
(* is sent.                                                                *)
(***************************************************************************)
\* what Transport.Send returned for the last request makes the step fail
StepFails ==
    /\ sent # <<>>
    /\ inflight = 0
    /\ \/ lastResp.kind = "send_error"
       \/ lastResp.kind # ResponseKind(LastSent.typ)
       \/ /\ LastSent.typ # to2DoneMsgType
          /\ lastResp.typ # LastSent.typ + 1
       \/ /\ LastSent.typ = to2DoneMsgType
          /\ lastResp.typ \notin {to2OVNextEntryMsgType, to2Done2MsgType}
       \/ /\ LastSent.typ \in {to2HelloDeviceMsgType, to2ProveDeviceMsgType}
          /\ lastResp.nonce # LastSent.nonce
       \/ /\ LastSent.typ = to2DoneMsgType
          /\ lastResp.nonce # TheSent(to2ProveDeviceMsgType).nonce
       \/ /\ LastSent.typ = to2GetOVNextEntryMsgType
          /\ lastResp.num # LastSent.num
       \/ /\ VoucherChecked
          /\ ovPasses # {AllChecks[k] : k \in 1..4}

RequestFunction(typ) ==
    CASE typ = to2HelloDeviceMsgType -> "helloDevice"
      [] typ = to2GetOVNextEntryMsgType -> "nextOVEntry"
      [] typ = to2ProveDeviceMsgType -> "proveDevice"
      [] typ = to2DeviceServiceInfoReadyMsgType -> "readyServiceInfo"
      [] typ = to2DeviceServiceInfoMsgType -> "deviceServiceInfo"
      [] typ = to2DoneMsgType -> "exchangeServiceInfo"

C9_ErrorMessageHandled ==
    (sent # <<>> /\ inflight = 0 /\ lastResp.typ = ErrorMsgType) =>
        /\ pc = "failed"
        /\ err.in = RequestFunction(LastSent.typ)
        /\ err.kind \in {"remote", "decode_error_message"}
        /\ lastResp.kind = "ErrorMessage" =>
              err.kind = "remote" /\ err.payload = lastResp.payload

\* the owner answered Done with an Error message
C9_Witness ==
    /\ Responded(to2DoneMsgType)
    /\ lastResp.typ = ErrorMsgType
    /\ err = Err("remote", "exchangeServiceInfo", "e2")

(***************************************************************************)
(* C11: for a ProveOVHdr reporting n >= 1 entries, verifyOwner sends       *)
(* exactly n GetOVNextEntry(62) requests, with entry numbers 0, 1, ...,    *)
(* n-1 in ascending order; the response to request i is accepted only if   *)
(* its echoed entry number is i, and the accepted entries are appended to  *)
(* the voucher in that order.  A response echoing another number ends the  *)
(* run with an error before request i+1 is sent.                           *)
(***************************************************************************)
\* the entry numbers of the GetOVNextEntry requests sent, in order
EntryNumsSent ==
    LET ks == {k \in 1..Len(sent) : sent[k].typ = to2GetOVNextEntryMsgType}
    IN  [j \in 1..Cardinality(ks) |-> sent[j + 1].num]

\* verifyOwner is past the loop that fetches the entries
EntriesFetched ==
    \/ checks # <<>>
    \/ VerifyOwnerReturnedContext

EntryRequests ==
    /\ HasSent(to2GetOVNextEntryMsgType) =>
          /\ info.set
          /\ info.NumVoucherEntries >= 1
          /\ Len(EntryNumsSent) <= info.NumVoucherEntries
          /\ \A j \in 1..Len(EntryNumsSent) :
                /\ sent[j + 1].typ = to2GetOVNextEntryMsgType
                /\ EntryNumsSent[j] = j - 1
    /\ (info.set /\ info.NumVoucherEntries >= 1 /\ EntriesFetched) =>
          Len(EntryNumsSent) = info.NumVoucherEntries
    /\ pc = "nextOVEntry_call" => Len(entries) = Len(EntryNumsSent)
    /\ pc = "nextOVEntry" => Len(entries) = LastSent.num
    /\ Responded(to2GetOVNextEntryMsgType) =>
          /\ ~(pc = "failed" /\ err.in = "nextOVEntry") =>
                /\ lastResp.kind = "OVNextEntry"
                /\ lastResp.num = LastSent.num
          /\ (lastResp.kind = "OVNextEntry" /\ lastResp.num # LastSent.num) =>
                /\ pc = "failed"
                /\ err.in = "nextOVEntry"
                /\ Len(EntryNumsSent) = LastSent.num + 1
                /\ Len(entries) = LastSent.num

\* a step that accepts the response to request i appends its entry
EntryAccumulated ==
    (pc = "nextOVEntry" /\ ~(pc' = "failed" /\ err'.in = "nextOVEntry")) =>
        /\ lastResp'.num = Len(entries)
        /\ pc' = "nextOVEntry_call" => entries' = Append(entries, lastResp'.entry)
        /\ pc' = "failed" => entries' = Append(entries, lastResp'.entry)
        /\ pc' = "proveDevice_call" => ovTail' = Public(lastResp'.entry.PublicKey)
        /\ ovTail' # "none" => ovTail' = Public(lastResp'.entry.PublicKey)

C11_EntriesFetchedInOrder == []EntryRequests /\ [][EntryAccumulated]_vars

\* two entries were fetched with requests 0 and 1 and the voucher accepted
C11_Witness ==
    /\ pc = "proveDevice_call"
    /\ EntryNumsSent = <<0, 1>>
    /\ lastResp.kind = "OVNextEntry"
    /\ lastResp.num = 1
    /\ ovTail = Public(lastResp.entry.PublicKey)

(***************************************************************************)
(* C12: every KV received in an OwnerServiceInfo(69) response of a round   *)
(* is fed to the owner-receive pipe and delivered to handleFSIMs in the    *)
(* order received, with none dropped, for every message of the round: an   *)
(* owner response that carries KVs after an exchange of the same round in  *)
(* which the device had is_more_service_info = true and the owner answered *)
(* is_more = false included.                                               *)
(***************************************************************************)
\* the keys of the KVs handleFSIMs has pulled in this iteration, in order
DeliveredKeys == [k \in 1..Len(delivered) |-> delivered[k].key]

\* the driver is not between Transport.Send and the last WriteChunk of the
\* response
ResponseWritten == pc \notin {"Send", "WriteChunk"}

C12_ReceivedKVsDelivered ==
    /\ Len(DeliveredKeys) <= Len(recvd)
    /\ DeliveredKeys = SubSeq(recvd, 1, Len(DeliveredKeys))
    /\ ResponseWritten => DeliveredKeys = recvd

(***************************************************************************)
(* C13: for any MTU at least as large as the largest chunk, the            *)
(* concatenation of the service_info lists of the successive               *)
(* DeviceServiceInfo(68) messages of a round is the sequence of chunks the *)
(* device-send pipe produced up to end-of-stream: same chunks, same order, *)
(* none dropped or duplicated, whatever the MTU.                           *)
(***************************************************************************)
RECURSIVE Flatten(_)
Flatten(ss) == IF ss = <<>> THEN <<>> ELSE Head(ss) \o Flatten(Tail(ss))

\* the chunks sent in the DeviceServiceInfo messages of the running round
SentChunks == Flatten([j \in 1..Len(svcLog) |-> svcLog[j].ServiceInfo])

\* the chunks the running round has read from its device-send pipe
ReadSoFar ==
    SentChunks \o (IF pc \in {"ReadChunk", "delay"} THEN msg.ServiceInfo ELSE <<>>)

\* the running round has sent a message filled up to the pipe's end-of-stream
SentToEndOfStream ==
    /\ svcLog # <<>>
    /\ \E j \in 1..Len(svcLog) : ~svcLog[j].IsMoreServiceInfo

LargestChunk == CHOOSE c \in ChunkSizes : \A d \in ChunkSizes : d <= c

C13_SentChunksAreProducedChunks ==
    iter >= 1 =>
        /\ Len(ReadSoFar) <= Len(produced[iter - 1])
        /\ ReadSoFar = SubSeq(produced[iter - 1], 1, Len(ReadSoFar))
        /\ SentToEndOfStream => SentChunks = produced[iter - 1]
        /\ mtu >= LargestChunk =>
              \A j \in 1..Len(svcLog) :
                  svcLog[j].IsMoreServiceInfo => svcLog[j].ServiceInfo # <<>>

\* two chunks went out in two messages of one round, the second filled up
\* to end-of-stream
C13_Witness ==
    /\ mtu >= LargestChunk
    /\ Len(svcLog) = 2
    /\ svcLog[1].IsMoreServiceInfo
    /\ svcLog[1].ServiceInfo = <<2>>
    /\ ~svcLog[2].IsMoreServiceInfo
    /\ svcLog[2].ServiceInfo = <<1>>
    /\ produced[iter - 1] = <<2, 1>>

(***************************************************************************)
(* C14: whenever a module handler returns an error, handleFSIMs closes the *)
(* device-send pipe with that error and the error surfaces to the caller   *)
(* of exchangeServiceInfo: in a run in which a handler returned an error,  *)
(* exchangeServiceInfo never returns success and never sends Done(70),     *)
(* also when the owner reports is_done = true in the same round.           *)
(***************************************************************************)
\* a handler invoked in the running iteration was to return an error
HandlerFails == \E j \in 1..Len(delivered) : delivered[j].invoked /\ delivered[j].fail

\* it has returned it: handleFSIMs has closed the device-send pipe with it
HandlerReturnedError == HandlerFails /\ out[iter] = "error"

C14_HandlerErrorSurfaces ==
    /\ (HandlerFails /\ task[iter].pc = "done") => out[iter] = "error"
    /\ HandlerReturnedError =>
          /\ ~HasSent(to2DoneMsgType)
          /\ pc # "success"

(***************************************************************************)
(* C15: for every KV handleFSIMs pulls from the owner-receive pipe with    *)
(* key "<module>:<message>", the handler invoked is the one registered     *)
(* under <module>, the part of the key before the first ':', and it is     *)
(* invoked with message name <message>; a handler registered under module  *)
(* name M is invoked for every received key of the form "M:<message>".     *)
(***************************************************************************)
C15_DispatchByModule ==
    \A j \in 1..Len(delivered) :
        LET d == delivered[j]
            c == Cut(d.key, ":")
        IN  /\ d.invoked =>
                  /\ d.fsim = c.before
                  /\ d.messageName = c.after
            /\ (c.found /\ c.before \in Fsims) =>
                  /\ d.invoked
                  /\ d.fsim = c.before
                  /\ d.messageName = c.after

(***************************************************************************)
(* C16: a received KV whose module has no registered handler is dropped    *)
(* and is not fatal: handleFSIMs invokes no handler for it, does not close *)
(* the device-send pipe with an error, and goes on to the following KVs of *)
(* the stream until end-of-input.                                          *)
(***************************************************************************)
\* the module of the key, the part before the first ':', is not registered
UnknownModule(key) == Cut(key, ":").before \notin Fsims

UnknownDropped ==
    /\ \A j \in 1..Len(delivered) :
          UnknownModule(delivered[j].key) =>
              /\ ~delivered[j].invoked
              /\ ~delivered[j].fail
    /\ (/\ iter >= 1
        /\ delivered # <<>>
        /\ \A j \in 1..Len(delivered) : UnknownModule(delivered[j].key)) =>
          /\ out[iter] # "error"
          /\ produced[iter] = <<>>
          /\ task[iter].pc \in {"recv", "done"}
          /\ task[iter].pc = "done" => out[iter] = "eof"

\* the step in which handleFSIMs pulls a KV of an unknown module leaves it
\* at recv.NextServiceInfo with the device-send pipe as it was
UnknownNotFatal ==
    (/\ Len(delivered') = Len(delivered) + 1
     /\ UnknownModule(delivered'[Len(delivered')].key)) =>
        /\ task'[iter].pc = "recv"
        /\ out' = out
        /\ produced' = produced
        /\ pc' # "failed"

C16_UnknownModuleDropped == []UnknownDropped /\ [][UnknownNotFatal]_vars

\* a KV of an unknown module was dropped and the KV after it in the stream
\* reached its handler
C16_Witness ==
    /\ Len(delivered) = 2
    /\ UnknownModule(delivered[1].key)
    /\ ~delivered[1].invoked
    /\ delivered[2].invoked
    /\ delivered[2].iter = delivered[1].iter

(***************************************************************************)
(* C17: every handleFSIMs task started by exchangeServiceInfo has          *)
(* terminated when exchangeServiceInfo returns, or is certain to terminate *)
(* afterwards, on every exit path; a task blocked writing module output    *)
(* into a device-send pipe that is never read, because the loop has ended, *)
(* does not stay blocked for ever.                                         *)
(***************************************************************************)
\* exchangeServiceInfo has returned
Returned == pc \in {"success", "failed"}

\* Once exchangeServiceInfo has returned nothing reads a device-send pipe:
\* a task at a write stays there.  A task at recv.NextServiceInfo finds the
\* end of its input, since its pipe w is closed, and returns.
C17_DispatchersTerminate ==
    Returned =>
        \A k \in 1..iter :
            /\ task[k].pc # "write"
            /\ task[k].pc = "recv" => (k < iter \/ wClosed)

(***************************************************************************)
(* C18: if the caller's context is cancelled while the driver is in the    *)
(* idle poll delay before an empty DeviceServiceInfo, deviceServiceInfo    *)
(* returns the context's cancellation error without waiting for the delay  *)
(* to elapse, the pending DeviceServiceInfo(68) is not sent, no later      *)
(* message, Done included, is sent, and exchangeServiceInfo returns that   *)
(* cancellation error.                                                     *)
(***************************************************************************)
CancelledError == Err("cancelled", "deviceServiceInfo", "none")

\* in the poll delay with the context cancelled, the driver's next step is
\* the return of the cancellation error, and nothing is sent
CancelledInDelay ==
    (pc = "delay" /\ ctxDone) =>
        /\ sent' = sent
        /\ svcLog' = svcLog
        /\ inflight' = inflight
        /\ pc' # pc => (pc' = "failed" /\ err' = CancelledError)

\* once the cancellation error is returned nothing more is sent
CancelledIsFinal ==
    err = CancelledError => (sent' = sent /\ pc' = pc /\ err' = err)

CancelledReturned ==
    err.kind = "cancelled" =>
        /\ pc = "failed"
        /\ err = CancelledError
        /\ ctxDone
        /\ inflight = 0
        /\ msg.ServiceInfo = <<>>
        /\ ~HasSent(to2DoneMsgType)
        /\ wClosed

C18_CancelDuringPollDelay ==
    /\ []CancelledReturned
    /\ [][CancelledInDelay]_vars
    /\ [][CancelledIsFinal]_vars

\* the context was cancelled in the delay before the second, empty
\* DeviceServiceInfo: one request was sent, and no other
C18_Witness ==
    /\ pc = "failed"
    /\ err = CancelledError
    /\ ctxDone
    /\ SentTypes = <<to2DeviceServiceInfoMsgType>>
    /\ lastResp.kind = "OwnerServiceInfo"

(***************************************************************************)
(* C19: whenever a DeviceServiceInfo(68) request carries no device service *)
(* info and the previous owner response had is_more = false, the driver    *)
(* waits out the poll delay before sending it, unless the context is       *)
(* cancelled first; such a request is never sent with no delay.            *)
(***************************************************************************)
\* a regular interval check: nothing to send and nothing more to receive
IntervalCheck(m) == m.ServiceInfo = <<>> /\ ~m.prevMore

IntervalChecksDelayed ==
    \A j \in 1..Len(svcLog) :
        IntervalCheck(svcLog[j]) => svcLog[j].waited = PollDelaySeconds

\* the step that sends such a request is the end of the poll delay, the
\* context not being cancelled
SentAfterDelay ==
    (/\ Len(svcLog') = Len(svcLog) + 1
     /\ IntervalCheck(svcLog'[Len(svcLog')])) =>
        /\ pc = "delay"
        /\ ~ctxDone
        /\ msg.ServiceInfo = <<>>

C19_IntervalCheckDelayed == []IntervalChecksDelayed /\ [][SentAfterDelay]_vars

\* the second iteration starts with an empty request after an owner
\* response without is_more: it was sent after the delay
C19_Witness ==
    /\ iter = 2
    /\ Len(svcLog) = 1
    /\ IntervalCheck(svcLog[1])
    /\ svcLog[1].waited = PollDelaySeconds
    /\ ~svcLog[1].IsMoreServiceInfo
    /\ pc = "Send"

(***************************************************************************)
(* C20: when ReadChunk signals ErrSizeTooSmall, exchangeServiceInfoRound   *)
(* stops reading, sets is_more_service_info = true on the message it sends *)
(* and, after the owner's response, runs another exchange reading from the *)
(* same device-send pipe; is_more_service_info is true on a sent message   *)
(* only in this case, and is false when the pipe reported end-of-stream.   *)
(***************************************************************************)
\* the owner's response to the last DeviceServiceInfo has been accepted and
\* no other request was sent since
LastExchangeAnswered ==
    /\ svcLog # <<>>
    /\ inflight = 0
    /\ LastSent.typ = to2DeviceServiceInfoMsgType
    /\ lastResp.typ = to2OwnerServiceInfoMsgType
    /\ lastResp.kind = "OwnerServiceInfo"

C20_SizeTooSmallSetsIsMore ==
    /\ \A j \in 1..Len(svcLog) :
          /\ svcLog[j].stop \in {"size_too_small", "eof"}
          /\ svcLog[j].IsMoreServiceInfo <=> svcLog[j].stop = "size_too_small"
          /\ ~svcLog[j].IsMoreServiceInfo <=> svcLog[j].stop = "eof"
          /\ j > 1 => svcLog[j].pipe = svcLog[j - 1].pipe
    /\ (LastExchangeAnswered /\ svcLog[Len(svcLog)].IsMoreServiceInfo) =>
          /\ pc \in {"WriteChunk", "ReadChunk", "delay", "failed"}
          /\ pc = "failed" => err.kind \in {"read_chunk", "cancelled"}
          /\ svcLog[Len(svcLog)].pipe = iter - 1

(***************************************************************************)
(* C21: two sessions of the same suite and cipher, one created without a   *)
(* peer parameter that called Parameter (giving xA, private a) and then    *)
(* SetParameter(xB), the other created with that xA that called Parameter  *)
(* (giving xB, private b), hold identical SEK and identical SVK, whatever  *)
(* the random private values a and b.                                      *)
(***************************************************************************)
\* the two sessions have exchanged the parameters their calls of Parameter
\* returned, and the owner's SetParameter has returned
Exchanged ==
    /\ ~kexPanic
    /\ device # Nil
    /\ Val(owner).a # Nil /\ Val(owner).xB # Nil
    /\ Val(device).xA # Nil /\ Val(device).b # Nil
    /\ Val(device).p = Val(owner).p /\ Val(device).ID = Val(owner).ID
    /\ Val(device).xA =
          Some(SetBytes(Parameter(NewSession([p |-> Val(owner).p, g |-> Val(owner).g,
                                              paramSize |-> Val(owner).paramSize],
                                             Nil, Val(owner).ID),
                                  Val(Val(owner).a)).out))
    /\ Val(owner).xB = Some(SetBytes(Parameter(Val(device), Val(Val(device).b)).out))

C21_SharedKeysAgree ==
    Exchanged =>
        /\ Val(owner).SEK = Val(device).SEK
        /\ Val(owner).SVK = Val(device).SVK
        /\ Len(Val(owner).SEK) = CipherSuite(Val(owner).ID).EncryptAlgKeySize

C21_Witness ==
    /\ Exchanged
    /\ Val(Val(owner).a) > 1 /\ Val(Val(device).b) > 1
    /\ Val(Val(owner).a) # Val(Val(device).b)
    /\ Val(owner).SEK = Val(device).SEK
    /\ Val(owner).SVK # <<>>
    /\ Val(owner).SVK = Val(device).SVK

(***************************************************************************)
(* C22: for every reachable session state and every value of the private   *)
(* and exchange parameters, zero included, MarshalCBOR followed by         *)
(* UnmarshalCBOR gives a session with the same prime, generator, param     *)
(* size, a, xA, b, xB (each absent exactly when it was absent), cipher,    *)
(* SEK and SVK, so that going on with the restored session derives the     *)
(* same keys and takes the same role as going on with the original.        *)
(***************************************************************************)
Restored(s) == UnmarshalCBOR(MarshalCBOR(s))

\* the sessions there are
Sessions == {Val(owner)} \cup (IF device = Nil THEN {} ELSE {Val(device)})

SameFields(s, r) ==
    /\ r.p = s.p /\ r.g = s.g /\ r.paramSize = s.paramSize
    /\ r.a = s.a /\ r.xA = s.xA /\ r.b = s.b /\ r.xB = s.xB
    /\ r.ID = s.ID /\ r.SEK = s.SEK /\ r.SVK = s.SVK

SameContinuation(s, r) ==
    /\ \A x \in Privates :
          /\ Parameter(r, x).out = Parameter(s, x).out
          /\ SameFields(Parameter(s, x).s, Parameter(r, x).s)
    /\ \A xB \in PeerParams :
          /\ SetParameter(r, xB).panic = SetParameter(s, xB).panic
          /\ SameFields(SetParameter(s, xB).s, SetParameter(r, xB).s)

C22_PersistRoundTrip ==
    \A s \in Sessions : SameFields(s, Restored(s)) /\ SameContinuation(s, Restored(s))

(***************************************************************************)
(* C23: no operation of the key-exchange session writes secret material to *)
(* a log: in every run, no log output of Parameter or SetParameter         *)
(* contains the private scalars a or b, the SEK or the SVK.                *)
(***************************************************************************)
\* the line shows the value of a private scalar
ShowsScalar(line) == line.a \notin {"nil", "ptr"} \/ line.b \notin {"nil", "ptr"}

\* the line shows the bytes of a derived key
ShowsKey(line) == line.SEK # <<>> \/ line.SVK # <<>>

C23_NoSecretLogged ==
    \A i \in 1..Len(kexLog) : ~ShowsScalar(kexLog[i]) /\ ~ShowsKey(kexLog[i])

(***************************************************************************)
(* C24: the EAT payload of the ProveDevice(64) request carries             *)
(* key_exchange_b equal to the device-side parameter xB that the           *)
(* key-exchange session's Parameter call returned for this run, made with  *)
(* the owner's KeyExchangeA of the to2Context; ProveDevice is never sent   *)
(* with an absent or empty key_exchange_b.                                 *)
(***************************************************************************)
\* what Parameter can return on a session created with a parameter of the owner
DeviceParameters ==
    {Parameter(NewSession(suite, Some(xA), cipher.ID), x).out :
        suite \in KexSuites, xA \in PeerParams, cipher \in CipherSuites, x \in Privates}

C24_ProveDeviceCarriesXB ==
    \A k \in 1..Len(sent) :
        sent[k].typ = to2ProveDeviceMsgType =>
            /\ sent[k].KeyExchangeB # Nil
            /\ Len(sent[k].KeyExchangeB) > 0
            /\ sent[k].KeyExchangeB \in DeviceParameters

(***************************************************************************)
(* C25: the service-info exchange never deadlocks on its unbuffered pipes: *)
(* in no reachable state are the driver (blocked in WriteChunk on the      *)
(* owner-receive pipe or in ReadChunk on the device-send pipe) and the     *)
(* dispatcher (blocked reading the owner-receive pipe or writing module    *)
(* output to the next device-send pipe) both blocked forever; when the     *)
(* owner's KVs follow a KV whose module wrote a response, the driver still *)
(* writes them and completes the round; and the owner-receive writer is    *)
(* closed on every return of exchangeServiceInfoRound.                     *)
(***************************************************************************)
\* the driver is in w.WriteChunk and the dispatcher of this iteration is not
\* pulling from the owner-receive pipe
DriverBlockedInWriteChunk ==
    /\ pc = "WriteChunk"
    /\ pending # <<>>
    /\ ~wClosed
    /\ task[iter].pc # "recv"

\* the dispatcher of this iteration is writing module output to the next
\* device-send pipe, which exchangeServiceInfoRound reads in the next
\* iteration only
DispatcherBlockedInWrite == iter >= 1 /\ task[iter].pc = "write"

\* exchangeServiceInfoRound has returned to the loop of exchangeServiceInfo
RoundReturned == iter >= 1 /\ pc \in {"loop", "Done_call", "Done", "success", "failed"}

\* the driver is in r.ReadChunk on a device-send pipe that has nothing to
\* deliver, and the dispatcher writing that pipe is in recv.NextServiceInfo
\* on an owner-receive pipe that will not report the end of the input
BothBlockedReading ==
    /\ pc = "ReadChunk"
    /\ ReadChunk(PipeView(iter - 1), maxRead).result = "open"
    /\ task[iter - 1].pc = "recv"
    /\ ~ENABLED HandleFSIMsReturn

C25_NoPipeDeadlock ==
    /\ ~(DriverBlockedInWriteChunk /\ DispatcherBlockedInWrite)
    /\ ~BothBlockedReading
    /\ RoundReturned => wClosed

(***************************************************************************)
(* C26: during the service-info loop at most two cooperating tasks are     *)
(* live, the driver and one dispatcher: when the loop starts the           *)
(* dispatcher of round k+1, the dispatcher started for round k has already *)
(* terminated (it is neither running nor blocked writing the device output *)
(* that round k+1 reads).                                                  *)
(***************************************************************************)
\* the handleFSIMs tasks that have been started and have not returned
LiveDispatchers == {k \in 1..iter : task[k].pc \in {"recv", "write"}}

C26_OneDispatcherLive ==
    /\ Cardinality(LiveDispatchers) <= 1
    /\ iter >= 2 => (task[iter].pc # "none" => task[iter - 1].pc = "done")

(***************************************************************************)
(* C27: the poll delay is applied only to a regular interval check: a      *)
(* DeviceServiceInfo(68) request is delayed only if it carries no service  *)
(* info and the last owner response did not indicate is_more.  When the    *)
(* previous owner response had is_more = true, or the device's previous    *)
(* message had is_more_service_info = true, the next DeviceServiceInfo is  *)
(* sent immediately, even when it carries no service info.                 *)
(***************************************************************************)
\* the request was held back by the poll delay
Delayed(m) == m.waited > 0

\* request j follows an exchange in which either side had more
FollowsMore(j) ==
    \/ svcLog[j].prevMore
    \/ j > 1 /\ svcLog[j - 1].IsMoreServiceInfo

C27_DelayOnlyOnIntervalCheck ==
    \A j \in 1..Len(svcLog) :
        /\ Delayed(svcLog[j]) => svcLog[j].ServiceInfo = <<>> /\ ~svcLog[j].prevMore
        /\ FollowsMore(j) => ~Delayed(svcLog[j])

(***************************************************************************)
(* C28: in every DeviceServiceInfo(68) message built by                    *)
(* exchangeServiceInfoRound, the sizes of the chunks in service_info sum   *)
(* to at most the negotiated mtu: the remaining budget maxRead starts at   *)
(* mtu for each message, is decreased by each chunk's size, never wraps    *)
(* around below zero in its 16-bit unsigned arithmetic, and each ReadChunk *)
(* is asked for at most the remaining budget.                              *)
(***************************************************************************)
RECURSIVE SumSizes(_)
SumSizes(chunks) == IF chunks = <<>> THEN 0 ELSE Head(chunks) + SumSizes(Tail(chunks))

\* every message sent fits the mtu
MessagesFitMtu == \A j \in 1..Len(svcLog) : SumSizes(svcLog[j].ServiceInfo) <= mtu

\* while a message is filled, maxRead is what the chunks read leave of mtu
BudgetIsRemainder ==
    pc \in {"ReadChunk", "delay"} =>
        /\ maxRead \in 0..mtu
        /\ maxRead = mtu - SumSizes(msg.ServiceInfo)

\* a message is started with the whole mtu
BudgetStartsAtMtu ==
    (pc # "ReadChunk" /\ pc' = "ReadChunk") => (maxRead' = mtu /\ msg'.ServiceInfo = <<>>)

\* a chunk read is no larger than the budget it was asked with, and the
\* budget goes down by its size without wrapping
ChunkWithinBudget ==
    (pc = "ReadChunk" /\ msg'.ServiceInfo # msg.ServiceInfo) =>
        LET size == msg'.ServiceInfo[Len(msg'.ServiceInfo)]
        IN  /\ msg'.ServiceInfo = Append(msg.ServiceInfo, size)
            /\ size <= maxRead
            /\ maxRead' = maxRead - size
            /\ maxRead' <= maxRead

C28_MessageWithinMtu ==
    /\ [](MessagesFitMtu /\ BudgetIsRemainder)
    /\ [][BudgetStartsAtMtu /\ ChunkWithinBudget]_vars

\* a message filled with one chunk that left a budget too small for the
\* next one, which went into the next message
C28_Witness ==
    /\ Len(svcLog) = 2
    /\ mtu = 2
    /\ svcLog[1].ServiceInfo = <<1>> /\ svcLog[1].IsMoreServiceInfo
    /\ svcLog[2].ServiceInfo = <<2>> /\ ~svcLog[2].IsMoreServiceInfo

(***************************************************************************)
(* C29: for any sequence of Transition, Receive and Yield calls on a       *)
(* PluginDeviceModule: the plugin's Start is invoked at most once, and     *)
(* only by the first Transition(true); Transition(false) never starts the  *)
(* plugin and returns nil; if that single Start failed, every later        *)
(* Transition(true) returns the same error without starting again; and     *)
(* Receive and Yield return a 'plugin module not activated' error, sending *)
(* nothing to the plugin, whenever no successful Start has happened.       *)
(***************************************************************************)
Activating(c) == c.op = "Transition" /\ c.active

\* the calls before call i had no Transition(true) among them
FirstActivation(i) == Activating(calls[i]) /\ \A j \in 1..(i - 1) : ~Activating(calls[j])

\* a call before call i started the plugin and returned nil
StartedBefore(i) == \E j \in 1..(i - 1) : calls[j].started /\ calls[j].ret = "nil"

C29_PluginStartedOnce ==
    /\ starts <= 1
    /\ starts = Cardinality({i \in 1..Len(calls) : calls[i].started})
    /\ \A i \in 1..Len(calls) :
          /\ calls[i].started <=> FirstActivation(i)
          /\ (calls[i].op = "Transition" /\ ~calls[i].active) =>
                calls[i].ret = "nil" /\ ~calls[i].started
          /\ \A j \in (i + 1)..Len(calls) :
                (calls[i].started /\ calls[i].ret # "nil" /\ Activating(calls[j])) =>
                    calls[j].ret = calls[i].ret /\ ~calls[j].started
          /\ (calls[i].op \in {"Receive", "Yield"} /\ ~StartedBefore(i)) =>
                calls[i].ret = NotActivated /\ calls[i].sends = 0
    /\ (\A i \in 1..Len(calls) : ~(calls[i].started /\ calls[i].ret = "nil")) =>
          toPlugin = <<>>

\* Start failed in the first Transition(true), a later Transition(true)
\* returned its error, and Receive found the module not activated
C29_Witness ==
    /\ Len(calls) = 3
    /\ FirstActivation(1) /\ calls[1].started /\ calls[1].ret \in StartErrors
    /\ Activating(calls[2]) /\ calls[2].ret = calls[1].ret /\ ~calls[2].started
    /\ calls[3].op = "Receive" /\ calls[3].ret = NotActivated
    /\ starts = 1
    /\ toPlugin = <<>>

====
